---- MODULE Spec2Model ----
(***************************************************************************)
(* Dynamic relation resolution engine of api-go: the public page routes    *)
(* (GET /page/:id, GET /page/:id/:itemId, POST /page/:id), the batch       *)
(* related-row loader and the dynamic mutation layer.                      *)
(*                                                                         *)
(* Go strings are sequences of one-character strings, so that quoteIdent,  *)
(* strings.ToLower and the "<table>:<id>" cache key are computed the way   *)
(* the code computes them.  A value of Go type `any` is a record           *)
(* [t, s, tbl, l]: t is the dynamic type, s the text of a scalar, tbl the  *)
(* table a materialized row was loaded from, l the elements of a list.     *)
(***************************************************************************)
EXTENDS Integers, Sequences, FiniteSets, TLC

\* ------------------------------------------------------------------ bounds
\* Most rows the page table holds in an initial state.
MaxRows == 2
\* Most edges a pivot table holds in an initial state.
MaxEdges == 2
\* Most right ids of one InsertPivotM2M call or one many-to-many payload field.
MaxRight == 2

\* ----------------------------------------------------------- Go strings
RECURSIVE JoinStr(_, _)
\* strings.Join(list, sep)
JoinStr(list, sep) ==
  IF list = <<>> THEN <<>>
  ELSE IF Len(list) = 1 THEN list[1]
  ELSE list[1] \o sep \o JoinStr(Tail(list), sep)

\* The sequence of the elements of a finite set, in some fixed order.
RECURSIVE SetToSeq(_)
SetToSeq(S) ==
  IF S = {} THEN <<>>
  ELSE LET x == CHOOSE y \in S : TRUE IN <<x>> \o SetToSeq(S \ {x})

\* All orders in which the elements of a finite set can be enumerated
\* (Go iterates over a map in an unspecified order).
RECURSIVE Orders(_)
Orders(S) ==
  IF S = {} THEN {<<>>}
  ELSE UNION {{<<x>> \o r : r \in Orders(S \ {x})} : x \in S}

\* f with key k set to v (m[k] = v on a Go map).
Put(f, k, v) == [x \in (DOMAIN f) \cup {k} |-> IF x = k THEN v ELSE f[x]]

\* delete(m, k) on a Go map.
Del(f, k) == [x \in (DOMAIN f) \ {k} |-> f[x]]

EmptyMap == [x \in {} |-> 0]

Upper == <<"A","B","C","D","E","F","G","H","I","J","K","L","M",
           "N","O","P","Q","R","S","T","U","V","W","X","Y","Z">>
Lower == <<"a","b","c","d","e","f","g","h","i","j","k","l","m",
           "n","o","p","q","r","s","t","u","v","w","x","y","z">>

LowerChar(c) ==
  IF \E i \in 1..26 : Upper[i] = c
  THEN Lower[CHOOSE i \in 1..26 : Upper[i] = c]
  ELSE c

\* strings.ToLower
ToLower(s) == [i \in 1..Len(s) |-> LowerChar(s[i])]

\* A replacement that leaves every double quote single.
ReplaceQuotesNone(s) == s

RECURSIVE ReplaceQuotes(_)
\* strings.ReplaceAll(ident, `"`, `""`)
ReplaceQuotes(s) ==
  IF s = <<>> THEN <<>>
  ELSE (IF Head(s) = "\"" THEN <<"\"", "\"">> ELSE <<Head(s)>>)
       \o ReplaceQuotes(Tail(s))

quoteIdent(ident) == <<"\"">> \o ReplaceQuotes(ident) \o <<"\"">>

RECURSIVE Undouble(_)
Undouble(s) ==
  IF s = <<>> THEN <<>>
  ELSE IF Len(s) >= 2 /\ s[1] = "\"" /\ s[2] = "\""
       THEN <<"\"">> \o Undouble(SubSeq(s, 3, Len(s)))
       ELSE <<Head(s)>> \o Undouble(Tail(s))

\* The table or column a quoted identifier of a statement names, as the
\* database reads it back from the SQL text.
IdentName(q) ==
  IF Len(q) >= 2 /\ q[1] = "\"" /\ q[Len(q)] = "\""
  THEN Undouble(SubSeq(q, 2, Len(q) - 1))
  ELSE q

\* ------------------------------------------------------------ Go values
Null == [t |-> "nil", s |-> <<>>, tbl |-> <<>>, l |-> <<>>]
IntV(s) == [t |-> "int64", s |-> s, tbl |-> <<>>, l |-> <<>>]
StrV(s) == [t |-> "string", s |-> s, tbl |-> <<>>, l |-> <<>>]
\* A JSON number decoded into an any (float64); s is the decimal text of
\* the whole number the body carries.
FloatV(s) == [t |-> "float64", s |-> s, tbl |-> <<>>, l |-> <<>>]
\* A JSON object decoded into a map[string]interface{}; m maps its keys.
ObjV(m) == [t |-> "object", s |-> <<>>, tbl |-> <<>>, l |-> <<>>, m |-> m]
\* A row of table tbl scanned into a map[string]any; s is the text of its id.
RowV(tbl, s) == [t |-> "map", s |-> s, tbl |-> tbl, l |-> <<>>]
ListV(l) == [t |-> "list", s |-> <<>>, tbl |-> <<>>, l |-> l]

\* The digits without the zeros at their end.
RECURSIVE TrimZeros(_)
TrimZeros(s) ==
  IF s # <<>> /\ s[Len(s)] = "0" THEN TrimZeros(SubSeq(s, 1, Len(s) - 1)) ELSE s

\* The exponent of %e: a sign and two digits.
Exponent(n) ==
  LET ds == <<"0", "1", "2", "3", "4", "5", "6", "7", "8", "9">>
  IN <<"e", "+", ds[(n \div 10) + 1], ds[(n % 10) + 1]>>

\* fmt's %v of a float64 that holds a whole number below 2^53: %g with the
\* shortest digits, which turns to the exponent form from 1e+06 on
\* (at most 16 digits here).
FormatFloat(s) ==
  IF Len(s) <= 6 THEN s
  ELSE LET rest == TrimZeros(SubSeq(s, 2, Len(s)))
       IN <<s[1]>> \o (IF rest = <<>> THEN <<>> ELSE <<".">> \o rest)
          \o Exponent(Len(s) - 1)

RECURSIVE Sprintf(_)
\* fmt.Sprintf("%v", v)
Sprintf(v) ==
  CASE v.t = "nil" -> <<"<","n","i","l",">">>
    [] v.t = "int64" -> v.s
    [] v.t = "string" -> v.s
    [] v.t = "float64" -> FormatFloat(v.s)
    [] v.t = "map" -> <<"m","a","p","[","i","d",":">> \o v.s \o <<"]">>
    [] OTHER ->
         <<"[">> \o JoinStr([i \in 1..Len(v.l) |-> Sprintf(v.l[i])], <<" ">>)
         \o <<"]">>

\* --------------------------------------------------------------- names
ID == <<"i","d">>
LEFT == <<"l","e","f","t","_","i","d">>
RIGHT == <<"r","i","g","h","t","_","i","d">>

\* A row of a pivot table.
Edge(l, r) == (LEFT :> StrV(l)) @@ (RIGHT :> StrV(r))

\* RelationDefinition
Rel(type, from, to, pivot) ==
  [type |-> type, fromColumn |-> from, toTable |-> to, pivotTable |-> pivot]

\* A name that is lower-cased whether it is given or derived.
pivotTableNameLowered(pageTable, rel) ==
  ToLower(IF rel.pivotTable # <<>> THEN rel.pivotTable
          ELSE pageTable \o <<"_">> \o rel.fromColumn \o <<"_">> \o rel.toTable)

pivotTableName(pageTable, rel) ==
  IF rel.pivotTable # <<>> THEN rel.pivotTable
  ELSE ToLower(pageTable \o <<"_">> \o rel.fromColumn \o <<"_">> \o rel.toTable)

\* ---------------------------------------------------------- statements
Digits == <<"0","1","2","3","4","5","6","7","8","9">>

\* fmt.Sprintf("%d", n), for the small numbers of a placeholder or a new id
Itoa(n) == IF n < 10 THEN <<Digits[n + 1]>>
           ELSE <<Digits[(n \div 10) + 1], Digits[(n % 10) + 1]>>

\* fmt.Sprintf("$%d", i)
Placeholder(i) == <<"$">> \o Itoa(i)

\* A statement handed to database/sql: the format string of its text, the
\* strings spliced into the text at each %s (each a list of items, joined
\* by the code), and the values passed as bound parameters.
Stmt(format, subst, args) == [format |-> format, subst |-> subst, args |-> args]

\* ------------------------------------------------------------- database
\* db maps the name of every existing table to the sequence of its rows, in
\* the order a SELECT without ORDER BY returns them.  A row maps column
\* names to values.  A statement on a table that does not exist fails.
TableExists(d, q) == IdentName(q) \in DOMAIN d

TableRows(d, q) == d[IdentName(q)]

\* The text a bound string parameter is compared with: the column value
\* written as text.
HasId(row, id) == ID \in DOMAIN row /\ row[ID].t # "nil" /\ Sprintf(row[ID]) = id

\* SELECT * FROM <q> WHERE id IN (ids)
SelectIdIn(d, q, ids) ==
  LET Test(row) == \E id \in ids : HasId(row, id)
  IN SelectSeq(TableRows(d, q), Test)

\* A SELECT that returns the first row of the table whatever the id.
SelectByIdFirst(d, q, id) ==
  IF TableRows(d, q) = <<>> THEN <<>> ELSE <<TableRows(d, q)[1]>>

\* SELECT * FROM <q> WHERE id = $1
SelectById(d, q, id) ==
  LET Test(row) == HasId(row, id)
  IN SelectSeq(TableRows(d, q), Test)

\* SELECT left_id, right_id FROM <q> WHERE left_id IN (ids)
SelectPivot(d, q, ids) ==
  LET Test(row) == row[LEFT].s \in ids
  IN SelectSeq(TableRows(d, q), Test)

\* -------------------------------------------------- batchLoadRelated
\* The statement batchLoadRelated builds for one target table.
BatchStmt(table, idSet) ==
  Stmt("SELECT * FROM %s WHERE id IN (%s)",
       << <<quoteIdent(table)>>,
          [i \in 1..Cardinality(idSet) |-> Placeholder(i)] >>,
       SetToSeq(idSet))

\* The cache after the rows returned for one table are scanned into it.
RECURSIVE CacheRows(_, _, _)
CacheRows(cache, table, rows) ==
  IF rows = <<>> THEN cache
  ELSE LET row == Head(rows)
           idVal == IF ID \in DOMAIN row /\ row[ID].t # "nil"
                    THEN Sprintf(row[ID]) ELSE <<>>
           next == IF idVal # <<>>
                   THEN Put(cache, table \o <<":">> \o idVal, RowV(table, idVal))
                   ELSE cache
       IN CacheRows(next, table, Tail(rows))

\* A loader that queries every table of the demand map.
BatchQueriesAlways(table, idSet) == TRUE

\* A table of the demand map is queried iff its id set is not empty.
BatchQueries(table, idSet) == idSet # {}

\* batchLoadRelated(db, fkByTable), the tables visited in the given order:
\* the cache built and the statements issued.  A failed query (the table
\* does not exist) skips its table and the loop goes on with the next one.
RECURSIVE BatchLoop(_, _, _, _)
BatchLoop(d, fkByTable, order, acc) ==
  IF order = <<>> THEN acc
  ELSE LET table == Head(order)
           idSet == fkByTable[table]
           issued == [acc EXCEPT !.qs = Append(@, BatchStmt(table, idSet))]
           after ==
             IF ~BatchQueries(table, idSet) THEN acc
             ELSE IF ~TableExists(d, quoteIdent(table)) THEN issued
             ELSE [issued EXCEPT !.cache =
                     CacheRows(@, table,
                               SelectIdIn(d, quoteIdent(table), idSet))]
       IN BatchLoop(d, fkByTable, Tail(order), after)

\* A loader that gives up on the first failed query.
batchLoadRelatedFailFast(d, fkByTable, order) ==
  LET r == BatchLoop(d, fkByTable, order, [cache |-> EmptyMap, qs |-> <<>>])
  IN IF \E t \in DOMAIN fkByTable : fkByTable[t] # {} /\ t \notin DOMAIN d
     THEN [r EXCEPT !.cache = EmptyMap] ELSE r

batchLoadRelated(d, fkByTable, order) ==
  BatchLoop(d, fkByTable, order, [cache |-> EmptyMap, qs |-> <<>>])

\* addFK(m, table, id)
addFK(m, table, id) ==
  Put(m, table, (IF table \in DOMAIN m THEN m[table] ELSE {}) \cup {id})

\* ------------------------------------------------------ schema parsing
\* json.Unmarshal(page.SchemaRelationsDeployed, &raw.Relations): a document
\* that does not parse yields an error and decodes nothing.
Unmarshal(js) ==
  IF js.valid THEN [rels |-> js.rels, err |-> FALSE]
  ELSE [rels |-> <<>>, err |-> TRUE]

\* What the handlers keep of the decoding: the error is dropped
\* (`_ = json.Unmarshal(...)`).
ParseRelations(pg) ==
  IF pg.schemaRelationsDeployed.isNil THEN <<>>
  ELSE Unmarshal(pg.schemaRelationsDeployed).rels

IsFK(rel) == rel.type = "one-to-one" \/ rel.type = "one-to-many"
IsM2M(rel) == rel.type = "many-to-many"

\* ------------------------------------------------- GET /page/:id, pass 1
\* "'" + strings.Join(allIDs, "','") + "'"
InList(allIDs) == <<"'">> \o JoinStr(allIDs, <<"'", ",", "'">>) \o <<"'">>

ListPivotStmt(pivot, allIDs) ==
  Stmt("SELECT left_id, right_id FROM %s WHERE left_id IN (%s)",
       << <<quoteIdent(pivot)>>, <<InList(allIDs)>> >>, <<>>)

Range(seq) == {seq[i] : i \in 1..Len(seq)}

\* m[left] = append(m[left], right) over the scanned pivot rows
RECURSIVE GroupPivot(_, _)
GroupPivot(m, rows) ==
  IF rows = <<>> THEN m
  ELSE LET left == Head(rows)[LEFT].s
           right == Head(rows)[RIGHT].s
           old == IF left \in DOMAIN m THEN m[left] ELSE <<>>
       IN GroupPivot(Put(m, left, Append(old, right)), Tail(rows))

\* The pivot loading loop of the listing: pivotData and the statements issued.
RECURSIVE ListPivotLoop(_, _, _, _, _)
ListPivotLoop(d, pageTable, rels, allIDs, acc) ==
  IF rels = <<>> THEN acc
  ELSE LET rel == Head(rels)
           pivot == pivotTableName(pageTable, rel)
           issued == [acc EXCEPT !.qs = Append(@, ListPivotStmt(pivot, allIDs))]
           after ==
             IF ~IsM2M(rel) \/ allIDs = <<>> THEN acc
             ELSE IF ~TableExists(d, quoteIdent(pivot)) THEN issued
             ELSE [issued EXCEPT !.pivotData =
                     Put(@, pivot,
                         GroupPivot(EmptyMap,
                                    SelectPivot(d, quoteIdent(pivot), Range(allIDs))))]
       IN ListPivotLoop(d, pageTable, Tail(rels), allIDs, after)

\* A presence test that forgets the nil test.
HasFKPresent(entry, rel) == rel.fromColumn \in DOMAIN entry

\* A row registers a demand for a foreign-key relation iff the column is
\* present and not nil.
HasFK(entry, rel) == rel.fromColumn \in DOMAIN entry /\ entry[rel.fromColumn].t # "nil"

\* The foreign keys of one relation over all rows (listing: an empty text
\* is skipped).
RECURSIVE ListFKRows(_, _, _)
ListFKRows(fk, rel, rows) ==
  IF rows = <<>> THEN fk
  ELSE LET entry == Head(rows)
           idStr == Sprintf(entry[rel.fromColumn])
           next == IF HasFK(entry, rel) /\ idStr # <<>>
                   THEN addFK(fk, rel.toTable, idStr) ELSE fk
       IN ListFKRows(next, rel, Tail(rows))

RECURSIVE ListFKLoop(_, _, _)
ListFKLoop(fk, rels, rows) ==
  IF rels = <<>> THEN fk
  ELSE ListFKLoop(IF IsFK(Head(rels)) THEN ListFKRows(fk, Head(rels), rows) ELSE fk,
                  Tail(rels), rows)

RECURSIVE AddAll(_, _, _)
AddAll(fk, table, ids) ==
  IF ids = {} THEN fk
  ELSE LET id == CHOOSE x \in ids : TRUE
       IN AddAll(addFK(fk, table, id), table, ids \ {id})

\* The right ids of the loaded pivot edges, registered per target table.
RECURSIVE ListM2MLoop(_, _, _, _)
ListM2MLoop(fk, pageTable, rels, pivotData) ==
  IF rels = <<>> THEN fk
  ELSE LET rel == Head(rels)
           pivot == pivotTableName(pageTable, rel)
           pairs == pivotData[pivot]
           rights == UNION {Range(pairs[l]) : l \in DOMAIN pairs}
           next == IF IsM2M(rel) /\ pivot \in DOMAIN pivotData
                   THEN AddAll(fk, rel.toTable, rights) ELSE fk
       IN ListM2MLoop(next, pageTable, Tail(rels), pivotData)

\* ------------------------------------------------- GET /page/:id, pass 2
\* The element of a many-to-many list for one right id.
M2MElement(objCache, rel, rid) ==
  LET key == rel.toTable \o <<":">> \o rid
  IN IF key \in DOMAIN objCache THEN objCache[key] ELSE StrV(rid)

\* A substitution that clears a foreign key it cannot resolve.
FKMissNil(entry, rel) == Put(entry, rel.fromColumn, Null)

\* The value written at the column of a foreign-key relation whose target
\* row is not in the cache: the entry is left as it is.
FKMiss(entry, rel) == entry

SubstFK(entry, rel, objCache, skipEmpty) ==
  IF ~HasFK(entry, rel) THEN entry
  ELSE LET idStr == Sprintf(entry[rel.fromColumn])
           key == rel.toTable \o <<":">> \o idStr
       IN IF skipEmpty /\ idStr = <<>> THEN entry
          ELSE IF key \in DOMAIN objCache
               THEN Put(entry, rel.fromColumn, objCache[key])
               ELSE FKMiss(entry, rel)

\* A nil slice in place of the empty list.
NilList == Null

\* The value of a many-to-many column with no right id.
EmptyList == ListV(<<>>)

ListSubstM2M(entry, rel, pageTable, pivotData, objCache) ==
  LET pivot == pivotTableName(pageTable, rel)
      entryID == Sprintf(IF ID \in DOMAIN entry THEN entry[ID] ELSE Null)
      pairs == pivotData[pivot]
      rightIDs == IF entryID \in DOMAIN pairs THEN pairs[entryID] ELSE <<>>
  IN IF pivot \in DOMAIN pivotData
     THEN IF Len(rightIDs) = 0
          THEN Put(entry, rel.fromColumn, EmptyList)
          ELSE Put(entry, rel.fromColumn,
                   ListV([i \in 1..Len(rightIDs) |->
                            M2MElement(objCache, rel, rightIDs[i])]))
     ELSE Put(entry, rel.fromColumn, EmptyList)

\* One row of the listing after every relation, in declaration order.
RECURSIVE ListSubstRow(_, _, _, _, _)
ListSubstRow(entry, rels, pageTable, pivotData, objCache) ==
  IF rels = <<>> THEN entry
  ELSE LET rel == Head(rels)
           next == IF IsFK(rel) THEN SubstFK(entry, rel, objCache, TRUE)
                   ELSE IF IsM2M(rel)
                   THEN ListSubstM2M(entry, rel, pageTable, pivotData, objCache)
                   ELSE entry
       IN ListSubstRow(next, Tail(rels), pageTable, pivotData, objCache)

\* The dependency dump: every distinct target table read whole, once.
\* A dependency loop that does not look at the tables already loaded.
RECURSIVE DepsLoopRepeating(_, _, _, _)
DepsLoopRepeating(d, rels, loaded, acc) ==
  IF rels = <<>> THEN acc
  ELSE LET rel == Head(rels)
           q == Stmt("SELECT * FROM %s", << <<quoteIdent(rel.toTable)>> >>, <<>>)
           issued == [acc EXCEPT !.qs = Append(@, q)]
           after ==
             IF ~TableExists(d, quoteIdent(rel.toTable)) THEN issued
             ELSE [issued EXCEPT !.deps =
                     Put(@, rel.fromColumn, TableRows(d, quoteIdent(rel.toTable)))]
       IN DepsLoopRepeating(d, Tail(rels), loaded, after)

RECURSIVE DepsLoop(_, _, _, _)
DepsLoop(d, rels, loaded, acc) ==
  IF rels = <<>> THEN acc
  ELSE LET rel == Head(rels)
           q == Stmt("SELECT * FROM %s", << <<quoteIdent(rel.toTable)>> >>, <<>>)
           issued == [acc EXCEPT !.qs = Append(@, q)]
           after ==
             IF rel.toTable \in loaded THEN acc
             ELSE IF ~TableExists(d, quoteIdent(rel.toTable)) THEN issued
             ELSE [issued EXCEPT !.deps =
                     Put(@, rel.fromColumn, TableRows(d, quoteIdent(rel.toTable)))]
       IN DepsLoop(d, Tail(rels), loaded \cup {rel.toTable}, after)

\* ------------------------------------------- GET /page/:id/:itemId
ItemRowStmt(table, itemID) ==
  Stmt("SELECT * FROM %s WHERE id = $1", << <<quoteIdent(table)>> >>, <<itemID>>)

\* getColumns(db, table): the table name is a bound parameter
ColumnsStmt(table) ==
  Stmt("SELECT column_name FROM information_schema.columns WHERE table_name = $1 ORDER BY ordinal_position",
       <<>>, <<table>>)

ItemPivotStmt(pivot, itemID) ==
  Stmt("SELECT right_id FROM %s WHERE left_id = $1", << <<quoteIdent(pivot)>> >>, <<itemID>>)

\* The foreign keys of the item over the relations (no test for an empty text).
RECURSIVE ItemFKLoop(_, _, _)
ItemFKLoop(fk, rels, item) ==
  IF rels = <<>> THEN fk
  ELSE LET rel == Head(rels)
           next == IF IsFK(rel) /\ HasFK(item, rel)
                   THEN addFK(fk, rel.toTable, Sprintf(item[rel.fromColumn]))
                   ELSE fk
       IN ItemFKLoop(next, Tail(rels), item)

\* The pivot loop of the item route: every returned right id is appended to
\* pivotData[pivot] and registered for the target table.
RECURSIVE ItemPivotLoop(_, _, _, _, _)
ItemPivotLoop(d, pageTable, rels, itemID, acc) ==
  IF rels = <<>> THEN acc
  ELSE LET rel == Head(rels)
           pivot == pivotTableName(pageTable, rel)
           issued == [acc EXCEPT !.qs = Append(@, ItemPivotStmt(pivot, itemID))]
           rows == SelectPivot(d, quoteIdent(pivot), {itemID})
           rids == [i \in 1..Len(rows) |-> rows[i][RIGHT].s]
           old == IF pivot \in DOMAIN acc.pivotData THEN acc.pivotData[pivot] ELSE <<>>
           after ==
             IF ~IsM2M(rel) THEN acc
             ELSE IF ~TableExists(d, quoteIdent(pivot)) THEN issued
             ELSE IF rids = <<>> THEN issued
             ELSE [issued EXCEPT !.pivotData = Put(@, pivot, old \o rids),
                                 !.fk = AddAll(@, rel.toTable, Range(rids))]
       IN ItemPivotLoop(d, pageTable, Tail(rels), itemID, after)

ItemSubstM2M(item, rel, pageTable, pivotData, objCache) ==
  LET pivot == pivotTableName(pageTable, rel)
      rightIDs == IF pivot \in DOMAIN pivotData THEN pivotData[pivot] ELSE <<>>
  IN Put(item, rel.fromColumn,
         IF Len(rightIDs) = 0 THEN EmptyList
         ELSE ListV([i \in 1..Len(rightIDs) |-> M2MElement(objCache, rel, rightIDs[i])]))

RECURSIVE ItemSubst(_, _, _, _, _)
ItemSubst(item, rels, pageTable, pivotData, objCache) ==
  IF rels = <<>> THEN item
  ELSE LET rel == Head(rels)
           next == IF IsFK(rel) THEN SubstFK(item, rel, objCache, FALSE)
                   ELSE IF IsM2M(rel)
                   THEN ItemSubstM2M(item, rel, pageTable, pivotData, objCache)
                   ELSE item
       IN ItemSubst(next, Tail(rels), pageTable, pivotData, objCache)

\* ------------------------------------------------ dynamic mutation layer
\* The columns of an existing table: those of its rows; an empty table
\* takes the columns of the first row written to it.
KnownColumns(d, table, cols) ==
  d[table] = <<>> \/ cols \subseteq DOMAIN d[table][1]

\* The row an INSERT of the given fields adds: the id is generated when not
\* given, every other column left out is nil.
NewRow(d, table, fields) ==
  LET cols == IF d[table] = <<>> THEN (DOMAIN fields) \cup {ID} ELSE DOMAIN d[table][1]
  IN [c \in cols |->
        IF c \in DOMAIN fields THEN fields[c]
        ELSE IF c = ID THEN IntV(Itoa(Len(d[table]) + 1))
        ELSE Null]

InsertStmt(table, fields, order) ==
  Stmt("INSERT INTO %s (%s) VALUES (%s) RETURNING id",
       << <<quoteIdent(table)>>,
          [i \in 1..Len(order) |-> quoteIdent(order[i])],
          [i \in 1..Len(order) |-> Placeholder(i)] >>,
       [i \in 1..Len(order) |-> fields[order[i]]])

\* The INSERT of InsertDynamic run by the database: it fails when the table
\* or a column does not exist, or when the database refuses the row (~ok).
InsertExec(d, table, fields, order, ok) ==
  LET q == InsertStmt(table, fields, order)
      name == IdentName(q.subst[1][1])
      cols == {IdentName(q.subst[2][i]) : i \in 1..Len(q.subst[2])}
      row == NewRow(d, name, [c \in cols |-> fields[c]])
  IN IF ok /\ name \in DOMAIN d /\ KnownColumns(d, name, cols)
     THEN [db |-> [d EXCEPT ![name] = Append(@, row)], qs |-> <<q>>,
           id |-> Sprintf(row[ID]), err |-> FALSE]
     ELSE [db |-> d, qs |-> <<q>>, id |-> <<>>, err |-> TRUE]

\* An InsertDynamic without the test for an empty field map.
InsertDynamicNoGuard(d, table, fields, order, ok) ==
  InsertExec(d, table, fields, order, ok)

\* InsertDynamic(db, table, fields), the fields visited in the given order.
InsertDynamic(d, table, fields, order, ok) ==
  IF DOMAIN fields = {}
  THEN [db |-> d, qs |-> <<>>, id |-> <<>>, err |-> TRUE]
  ELSE InsertExec(d, table, fields, order, ok)

PivotStmt(pivotTable, leftID, r) ==
  Stmt("INSERT INTO %s (left_id, right_id) VALUES ($1, $2)",
       << <<quoteIdent(pivotTable)>> >>, <<leftID, r>>)

\* One db.Exec of the loop of InsertPivotM2M.
PivotExec(d, pivotTable, leftID, r, ok) ==
  LET q == PivotStmt(pivotTable, leftID, r)
      name == IdentName(q.subst[1][1])
  IN IF ok /\ name \in DOMAIN d
     THEN [db |-> [d EXCEPT ![name] = Append(@, Edge(q.args[1], q.args[2]))],
           q |-> q, err |-> FALSE]
     ELSE [db |-> d, q |-> q, err |-> TRUE]

\* A loop that goes on with the next right id after a failed insert.
PivotNextSkipping(rightIDs, i, err) ==
  IF i < Len(rightIDs) THEN [done |-> FALSE, i |-> i + 1, err |-> FALSE]
  ELSE [done |-> TRUE, i |-> i, err |-> err]

\* Where InsertPivotM2M stands after the insert of rightIDs[i]: it returns
\* the first error at once, and nil after the last right id.
PivotNext(rightIDs, i, err) ==
  IF err THEN [done |-> TRUE, i |-> i, err |-> TRUE]
  ELSE IF i < Len(rightIDs) THEN [done |-> FALSE, i |-> i + 1, err |-> FALSE]
  ELSE [done |-> TRUE, i |-> i, err |-> FALSE]

\* The assignments of the SET clause: "col" = $i for the i-th field.
UpdateSets(order) ==
  [i \in 1..Len(order) |-> quoteIdent(order[i]) \o <<" ","="," ">> \o Placeholder(i)]

\* The last item fills the %d of the format: the number of arguments.
UpdateStmt(table, id, fields, order) ==
  Stmt("UPDATE %s SET %s WHERE id = $%d",
       << <<quoteIdent(table)>>, UpdateSets(order), <<Itoa(Len(order) + 1)>> >>,
       [i \in 1..Len(order) |-> fields[order[i]]] \o <<StrV(id)>>)

\* The column an assignment of the SET clause names.
SetColumn(item) ==
  IdentName(SubSeq(item, 1, CHOOSE k \in 1..Len(item) :
                              /\ k >= 2 /\ item[k] = "\""
                              /\ k + 1 <= Len(item) /\ item[k + 1] = " "))

\* The UPDATE of UpdateDynamic run by the database: it fails when the table
\* or a column does not exist, when there is no assignment, or when the
\* database refuses it (~ok); it writes the rows whose id is the last
\* argument.
UpdateExec(d, table, id, fields, order, ok) ==
  LET q == UpdateStmt(table, id, fields, order)
      name == IdentName(q.subst[1][1])
      n == Len(q.subst[2])
      cols == {SetColumn(q.subst[2][i]) : i \in 1..n}
      arg == [c \in cols |-> q.args[CHOOSE i \in 1..n : SetColumn(q.subst[2][i]) = c]]
      target == q.args[Len(q.args)].s
      Write(row) == IF HasId(row, target)
                    THEN [c \in DOMAIN row |-> IF c \in cols THEN arg[c] ELSE row[c]]
                    ELSE row
  IN IF ok /\ n > 0 /\ name \in DOMAIN d /\ KnownColumns(d, name, cols)
     THEN [db |-> [d EXCEPT ![name] = [i \in 1..Len(@) |-> Write(@[i])]],
           qs |-> <<q>>, err |-> FALSE]
     ELSE [db |-> d, qs |-> <<q>>, err |-> TRUE]

\* An UpdateDynamic without the test for an empty field map.
UpdateDynamicNoGuard(d, table, id, fields, order, ok) ==
  UpdateExec(d, table, id, fields, order, ok)

\* UpdateDynamic(db, table, id, fields), the fields visited in the given order.
UpdateDynamic(d, table, id, fields, order, ok) ==
  IF DOMAIN fields = {}
  THEN [db |-> d, qs |-> <<>>, err |-> FALSE]
  ELSE UpdateExec(d, table, id, fields, order, ok)

\* ---------------------------------------------------------------- state
VARIABLES
  db,       \* the dynamic tables: table name -> rows
  page,     \* the models.Page the request names
  pc,       \* the position of the request being served
  req,      \* the locals of the handler serving it
  queries,  \* every statement issued on the dynamic tables, in order
  resp,     \* the response written or the result returned (status 0: none yet)
  hist      \* history: the database when the request started, and how
            \* many of its statements the database refused

vars == <<db, page, pc, req, queries, resp, hist>>

NoResp == [status |-> 0]
Respond(status, body) == [status |-> status] @@ body

\* ------------------------------------------------------ GET /page/:id
\* Page lookup, schema parsing, and the test that a table is deployed.
ListStart ==
  /\ pc = "idle"
  /\ UNCHANGED <<hist, db, page, queries>>
  /\ IF ~page.found
     THEN /\ resp' = Respond(404, [error |-> "Page introuvable"])
          /\ pc' = "done"
          /\ req' = [kind |-> "list"]
     ELSE /\ req' = [kind |-> "list", relations |-> ParseRelations(page)]
          /\ IF page.deploy /\ page.tableName # <<>>
             THEN pc' = "list_rows" /\ resp' = resp
             ELSE /\ pc' = "done"
                  /\ resp' = Respond(200, [data |-> <<>>, dependencies |-> EmptyMap])

\* SELECT * of the page table, the rows scanned into maps.
ListRows ==
  /\ pc = "list_rows"
  /\ UNCHANGED <<hist, db, page>>
  /\ LET q == Stmt("SELECT * FROM %s", << <<quoteIdent(page.tableName)>> >>, <<>>)
         rawRows == TableRows(db, quoteIdent(page.tableName))
         withId == SelectSeq(rawRows, LAMBDA e : ID \in DOMAIN e /\ e[ID].t # "nil")
         allIDs == [i \in 1..Len(withId) |-> Sprintf(withId[i][ID])]
     IN /\ queries' = Append(queries, q)
        /\ IF ~TableExists(db, quoteIdent(page.tableName))
           THEN /\ resp' = Respond(500, [error |-> "query"])
                /\ pc' = "done" /\ req' = req
           ELSE IF Len(rawRows) = 0
           THEN /\ resp' = Respond(200, [data |-> <<>>, dependencies |-> EmptyMap])
                /\ pc' = "done" /\ req' = req
           ELSE /\ req' = req @@ [rawRows |-> rawRows, allIDs |-> allIDs]
                /\ pc' = "list_pivots" /\ resp' = resp

\* One pivot query per many-to-many relation.
ListPivots ==
  /\ pc = "list_pivots"
  /\ UNCHANGED <<hist, db, page, resp>>
  /\ LET r == ListPivotLoop(db, page.tableName, req.relations, req.allIDs,
                            [pivotData |-> EmptyMap, qs |-> <<>>])
     IN /\ queries' = queries \o r.qs
        /\ req' = req @@ [pivotData |-> r.pivotData]
  /\ pc' = "list_batch"

\* Demand collection and batchLoadRelated.
\* A batch step whose cache still holds the entries of the call before.
ListBatchKeeping ==
  /\ pc = "list_batch"
  /\ UNCHANGED <<hist, db, page, resp>>
  /\ LET fk == ListM2MLoop(ListFKLoop(EmptyMap, req.relations, req.rawRows),
                           page.tableName, req.relations, req.pivotData)
         kept == IF "prev" \in DOMAIN hist /\ "objCache" \in DOMAIN hist.prev.req
                 THEN hist.prev.req.objCache ELSE EmptyMap
     IN \E order \in Orders(DOMAIN fk) :
          LET r == batchLoadRelated(db, fk, order)
          IN /\ queries' = queries \o r.qs
             /\ req' = req @@ [fkByTable |-> fk, objCache |-> r.cache @@ kept]
  /\ pc' = "list_subst"

ListBatch ==
  /\ pc = "list_batch"
  /\ UNCHANGED <<hist, db, page, resp>>
  /\ LET fk == ListM2MLoop(ListFKLoop(EmptyMap, req.relations, req.rawRows),
                           page.tableName, req.relations, req.pivotData)
     IN \E order \in Orders(DOMAIN fk) :
          LET r == batchLoadRelated(db, fk, order)
          IN /\ queries' = queries \o r.qs
             /\ req' = req @@ [fkByTable |-> fk, objCache |-> r.cache]
  /\ pc' = "list_subst"

\* Substitution pass, dependency dump and the response.
ListSubst ==
  /\ pc = "list_subst"
  /\ UNCHANGED <<hist, db, page, req>>
  /\ LET data == [i \in 1..Len(req.rawRows) |->
                    ListSubstRow(req.rawRows[i], req.relations, page.tableName,
                                 req.pivotData, req.objCache)]
         r == DepsLoop(db, req.relations, {}, [deps |-> EmptyMap, qs |-> <<>>])
     IN /\ queries' = queries \o r.qs
        /\ resp' = Respond(200, [data |-> data, dependencies |-> r.deps])
  /\ pc' = "done"

\* -------------------------------------------- GET /page/:id/:itemId
ItemIds == {<<"1">>, <<"2">>}

ItemStart ==
  /\ pc = "idle"
  /\ UNCHANGED <<hist, db, page, queries>>
  /\ \E itemID \in ItemIds :
       IF ~page.found
       THEN /\ resp' = Respond(404, [error |-> "Page introuvable"])
            /\ pc' = "done"
            /\ req' = [kind |-> "item", itemID |-> itemID]
       ELSE /\ req' = [kind |-> "item", itemID |-> itemID,
                       relations |-> ParseRelations(page)]
            /\ IF ~page.deploy \/ page.tableName = <<>>
               THEN /\ pc' = "done"
                    /\ resp' = Respond(400, [error |-> "pas de table"])
               ELSE pc' = "item_row" /\ resp' = resp

\* The row of the item, its columns, and its foreign keys.
ItemRow ==
  /\ pc = "item_row"
  /\ UNCHANGED <<hist, db, page>>
  /\ LET q == quoteIdent(page.tableName)
         found == IF TableExists(db, q) THEN SelectById(db, q, req.itemID) ELSE <<>>
     IN /\ queries' = queries \o <<ItemRowStmt(page.tableName, req.itemID),
                                   ColumnsStmt(page.tableName)>>
        /\ IF found = <<>>
           THEN /\ resp' = Respond(404, [error |-> "Item introuvable"])
                /\ pc' = "done" /\ req' = req
           ELSE /\ req' = req @@ [item |-> found[1],
                                  fkByTable |-> ItemFKLoop(EmptyMap, req.relations, found[1])]
                /\ pc' = "item_pivots" /\ resp' = resp

ItemPivots ==
  /\ pc = "item_pivots"
  /\ UNCHANGED <<hist, db, page, resp>>
  /\ LET r == ItemPivotLoop(db, page.tableName, req.relations, req.itemID,
                            [pivotData |-> EmptyMap, fk |-> req.fkByTable, qs |-> <<>>])
     IN /\ queries' = queries \o r.qs
        /\ req' = [req EXCEPT !.fkByTable = r.fk] @@ [pivotData |-> r.pivotData]
  /\ pc' = "item_batch"

ItemBatch ==
  /\ pc = "item_batch"
  /\ UNCHANGED <<hist, db, page, resp>>
  /\ \E order \in Orders(DOMAIN req.fkByTable) :
       LET r == batchLoadRelated(db, req.fkByTable, order)
       IN /\ queries' = queries \o r.qs
          /\ req' = req @@ [objCache |-> r.cache]
  /\ pc' = "item_subst"

ItemSubstitute ==
  /\ pc = "item_subst"
  /\ UNCHANGED <<hist, db, page, req>>
  /\ LET item == ItemSubst(req.item, req.relations, page.tableName,
                           req.pivotData, req.objCache)
         r == DepsLoop(db, req.relations, {}, [deps |-> EmptyMap, qs |-> <<>>])
     IN /\ queries' = queries \o r.qs
        /\ resp' = Respond(200, [item |-> item, dependencies |-> r.deps])
  /\ pc' = "done"

\* -------------------------------------------------------- initial states
\* The page table, two target tables, the foreign-key column and the
\* many-to-many field of the schemas below.
PG == <<"P","g">>
U == <<"U">>
T == <<"T">>
A == <<"a">>
G == <<"g">>

\* The relation lists a page declares: a well-formed schema names each
\* source column once.
Schemas ==
  { <<>>,
    <<Rel("one-to-one", A, U, <<>>), Rel("many-to-many", G, T, <<>>)>>,
    <<Rel("one-to-many", A, U, <<>>), Rel("many-to-many", G, U, <<>>)>> }

Doc(rels) == [isNil |-> FALSE, valid |-> TRUE, rels |-> rels]
\* A stored document that does not parse.
BadDoc == [isNil |-> FALSE, valid |-> FALSE, rels |-> <<>>]
NilDoc == [isNil |-> TRUE, valid |-> FALSE, rels |-> <<>>]

PageOf(found, deploy, doc) ==
  [found |-> found, deploy |-> deploy, tableName |-> PG,
   schemaRelationsDeployed |-> doc]

Pages ==
  {PageOf(FALSE, FALSE, NilDoc), PageOf(TRUE, FALSE, NilDoc),
   PageOf(TRUE, TRUE, NilDoc), PageOf(TRUE, TRUE, BadDoc)}
  \cup {PageOf(TRUE, TRUE, Doc(rels)) : rels \in Schemas}

\* Values of the foreign-key column, ids of target rows, ends of pivot edges.
AVals == {Null, IntV(<<"7">>), IntV(<<"8">>)}
TargetIdSets == {{<<"7">>}}
LeftIds == {<<"1">>, <<"2">>}
RightIds == {<<"7">>, <<"8">>}

PageRow(i, a) == (ID :> IntV(Itoa(i))) @@ (A :> a)

\* The page table: missing, or up to MaxRows rows with ids 1, 2, ..., with
\* or without the foreign-key column.
PageTables ==
  {EmptyMap}
  \cup {(PG :> [i \in 1..n |-> PageRow(i, f[i])]) :
          n \in 0..MaxRows, f \in [1..MaxRows -> AVals]}
  \cup {(PG :> [i \in 1..n |-> (ID :> IntV(Itoa(i)))]) : n \in 1..MaxRows}

TargetRows(ids) == [i \in 1..Cardinality(ids) |-> (ID :> IntV(SetToSeq(ids)[i]))]

\* A table of the database: missing, or with the given rows.
TableOptions(rowSeqs) ==
  {[exists |-> FALSE, rows |-> <<>>]} \cup {[exists |-> TRUE, rows |-> r] : r \in rowSeqs}

\* Sequences of at most n distinct elements of S.
RECURSIVE DistinctSeqs(_, _)
DistinctSeqs(S, n) ==
  IF n = 0 THEN {<<>>}
  ELSE {<<>>} \cup UNION {{<<x>> \o r : r \in DistinctSeqs(S \ {x}, n - 1)} : x \in S}

EdgeSeqs == DistinctSeqs({Edge(l, r) : l \in LeftIds, r \in RightIds}, MaxEdges)

Existing(f) == [t \in {x \in DOMAIN f : f[x].exists} |-> f[t].rows]

\* The databases a page with the given relations may be served from.
Databases(pageTable, rels) ==
  LET targets == {rels[i].toTable : i \in 1..Len(rels)}
      pivots == {pivotTableName(pageTable, rels[i]) :
                   i \in {j \in 1..Len(rels) : IsM2M(rels[j])}}
  IN {pt @@ Existing(tf) @@ Existing(pf) :
        pt \in PageTables,
        tf \in [targets -> TableOptions({TargetRows(ids) : ids \in TargetIdSets})],
        pf \in [pivots -> TableOptions(EdgeSeqs)]}

Init ==
  /\ page \in Pages
  /\ db \in Databases(page.tableName, ParseRelations(page))
  /\ pc = "idle"
  /\ req = [kind |-> "none"]
  /\ queries = <<>>
  /\ resp = NoResp
  /\ hist = [db0 |-> db, failed |-> 0]

Next ==
  \/ ListStart
  \/ ListRows
  \/ ListPivots
  \/ ListBatch
  \/ ListSubst
  \/ ItemStart
  \/ ItemRow
  \/ ItemPivots
  \/ ItemBatch
  \/ ItemSubstitute

Spec == Init /\ [][Next]_vars


\* ---------------------------------------------- the library, called directly
\* A caller of the package calls batchLoadRelated, InsertDynamic or
\* InsertPivotM2M once, on its own arguments.
W == <<"W">>
N == <<"n">>
X == <<"X">>

DemandMaps ==
  UNION {[tables -> SUBSET RightIds] : tables \in SUBSET {U, T}}

FieldMaps ==
  {EmptyMap, (N :> StrV(<<"x">>)), (N :> StrV(<<"x">>)) @@ (A :> IntV(<<"7">>))}

RECURSIVE SeqsUpTo(_, _)
\* Sequences of at most n elements of S.
SeqsUpTo(S, n) ==
  IF n = 0 THEN {<<>>}
  ELSE {<<>>} \cup {<<x>> \o r : x \in S, r \in SeqsUpTo(S, n - 1)}

CallBatch ==
  /\ pc = "idle"
  /\ UNCHANGED <<db, page, hist>>
  /\ \E fk \in DemandMaps : \E order \in Orders(DOMAIN fk) :
       LET r == batchLoadRelated(db, fk, order)
       IN /\ queries' = queries \o r.qs
          /\ req' = [kind |-> "batchLoadRelated", fkByTable |-> fk]
          /\ resp' = [status |-> 0, cache |-> r.cache]
  /\ pc' = "done"

CallInsertDynamic ==
  /\ pc = "idle"
  /\ UNCHANGED <<page>>
  /\ \E table \in {W, PG} : \E fields \in FieldMaps :
     \E order \in Orders(DOMAIN fields) : \E ok \in BOOLEAN :
       LET r == InsertDynamic(db, table, fields, order, ok)
       IN /\ db' = r.db
          /\ queries' = queries \o r.qs
          /\ req' = [kind |-> "InsertDynamic", table |-> table, fields |-> fields]
          /\ resp' = [status |-> 0, id |-> r.id, err |-> r.err]
          /\ hist' = [hist EXCEPT !.failed = IF r.qs # <<>> /\ r.err THEN @ + 1 ELSE @]
  /\ pc' = "done"

\* InsertPivotM2M up to its loop: no right id, nothing to do.
CallInsertPivotM2M ==
  /\ pc = "idle"
  /\ UNCHANGED <<db, page, queries, hist>>
  /\ \E pivotTable \in {X} : \E leftID \in LeftIds :
     \E rightIDs \in SeqsUpTo(RightIds, MaxRight) :
       /\ req' = [kind |-> "InsertPivotM2M", pivotTable |-> pivotTable,
                  leftID |-> leftID, rightIDs |-> rightIDs, i |-> 1]
       /\ IF Len(rightIDs) = 0
          THEN pc' = "done" /\ resp' = [status |-> 0, err |-> FALSE]
          ELSE pc' = "pivot_exec" /\ resp' = resp

\* One turn of the loop of InsertPivotM2M.
InsertPivotM2MLoop ==
  /\ pc = "pivot_exec"
  /\ UNCHANGED <<page>>
  /\ \E ok \in BOOLEAN :
       LET r == PivotExec(db, req.pivotTable, req.leftID, req.rightIDs[req.i], ok)
           n == PivotNext(req.rightIDs, req.i, r.err)
       IN /\ db' = r.db
          /\ queries' = Append(queries, r.q)
          /\ hist' = [hist EXCEPT !.failed = IF r.err THEN @ + 1 ELSE @]
          /\ req' = [req EXCEPT !.i = n.i]
          /\ IF n.done
             THEN pc' = "done" /\ resp' = [status |-> 0, err |-> n.err]
             ELSE pc' = "pivot_exec" /\ resp' = resp

WRow == (ID :> IntV(<<"1">>)) @@ (N :> StrV(<<"y">>)) @@ (A :> Null)

\* The databases of the direct calls: the table W missing, empty or with one
\* row, the target tables U and T, the pivot table X missing, empty or
\* with one edge.
LibDatabases ==
  {Existing(f) :
     f \in [{W} -> TableOptions({<<>>, <<WRow>>})]}
  \X {Existing(f) :
        f \in [{U, T} -> TableOptions({TargetRows(ids) : ids \in TargetIdSets})]}
  \X {Existing(f) :
        f \in [{X} -> TableOptions({<<>>, <<Edge(<<"1">>, <<"7">>)>>})]}

InitLib ==
  /\ page = PageOf(FALSE, FALSE, NilDoc)
  /\ db \in {x[1] @@ x[2] @@ x[3] : x \in LibDatabases}
  /\ pc = "idle"
  /\ req = [kind |-> "none"]
  /\ queries = <<>>
  /\ resp = NoResp
  /\ hist = [db0 |-> db, failed |-> 0]

NextLib ==
  \/ CallBatch
  \/ CallInsertDynamic
  \/ CallInsertPivotM2M
  \/ InsertPivotM2MLoop

SpecLib == InitLib /\ [][NextLib]_vars

\* ------------------------------------------------------ POST /page/:id
H == <<"h">>

\* The ids of a many-to-many array of the payload: a string is an id, an
\* object gives the text of its "id", anything else is passed over.
RECURSIVE M2MIds(_)
M2MIds(arr) ==
  IF arr = <<>> THEN <<>>
  ELSE LET a == Head(arr)
           rest == M2MIds(Tail(arr))
       IN CASE a.t = "string" -> <<a.s>> \o rest
            [] a.t = "object" ->
                 IF ID \in DOMAIN a.m THEN <<Sprintf(a.m[ID])>> \o rest ELSE rest
            [] OTHER -> rest

\* The payload split over the relations: the ids of every many-to-many
\* field that holds an array, and the payload without those fields.
RECURSIVE SplitPayload(_, _, _)
SplitPayload(payload, m2mFields, rels) ==
  IF rels = <<>> THEN [payload |-> payload, m2mFields |-> m2mFields]
  ELSE LET rel == Head(rels)
           c == rel.fromColumn
       IN IF ~IsM2M(rel) THEN SplitPayload(payload, m2mFields, Tail(rels))
          ELSE IF c \in DOMAIN payload /\ payload[c].t # "nil" /\ payload[c].t = "list"
          THEN SplitPayload(Del(payload, c), Put(m2mFields, c, M2MIds(payload[c].l)),
                            Tail(rels))
          ELSE SplitPayload(Del(payload, c), m2mFields, Tail(rels))

\* m2mFields[rel.FromColumn], nil for a field the payload did not give.
RightIDsOf(m2mFields, rel) ==
  IF rel.fromColumn \in DOMAIN m2mFields THEN m2mFields[rel.fromColumn] ELSE <<>>

\* The first relation from index r on for which the pivot loop calls
\* InsertPivotM2M, Len(rels) + 1 when there is none.
RECURSIVE NextPivotRel(_, _, _)
NextPivotRel(rels, m2mFields, r) ==
  IF r > Len(rels) THEN r
  ELSE IF IsM2M(rels[r]) /\ Len(RightIDsOf(m2mFields, rels[r])) # 0 THEN r
  ELSE NextPivotRel(rels, m2mFields, r + 1)

Created(newID) == Respond(201, [message |-> "Creation OK", id |-> newID])

\* The request bodies: fields of the main row, many-to-many fields holding
\* ids, objects, a number, a scalar or null.
\* The id 1000000, which JSON carries as a number.
Million == <<"1", "0", "0", "0", "0", "0", "0">>

Payloads ==
  { EmptyMap,
    (N :> StrV(<<"x">>)),
    (A :> FloatV(<<"7">>)),
    (G :> ListV(<<StrV(<<"7">>)>>)),
    (A :> FloatV(<<"7">>)) @@ (G :> ListV(<<StrV(<<"7">>), StrV(<<"8">>)>>)),
    (A :> FloatV(<<"7">>))
      @@ (G :> ListV(<<ObjV((ID :> FloatV(<<"8">>))), FloatV(<<"5">>),
                       ObjV((N :> StrV(<<"x">>)))>>)),
    (A :> FloatV(<<"7">>)) @@ (G :> StrV(<<"7">>)),
    (A :> FloatV(<<"7">>)) @@ (G :> Null),
    (A :> FloatV(<<"7">>)) @@ (G :> ListV(<<StrV(<<"7">>)>>))
      @@ (H :> ListV(<<StrV(<<"8">>)>>)),
    (A :> FloatV(<<"7">>))
      @@ (G :> ListV(<<ObjV((ID :> FloatV(Million))), StrV(<<"7">>)>>)) }

\* Page lookup, the test of the table name, schema parsing, body binding.
PostStart ==
  /\ pc = "idle"
  /\ UNCHANGED <<hist, db, page, queries>>
  /\ IF ~page.found
     THEN /\ resp' = Respond(404, [error |-> "Page introuvable"])
          /\ pc' = "done"
          /\ req' = [kind |-> "post"]
     ELSE IF page.tableName = <<>>
     THEN /\ resp' = Respond(400, [error |-> "TableName manquant"])
          /\ pc' = "done"
          /\ req' = [kind |-> "post"]
     ELSE \E bound \in BOOLEAN :
            IF ~bound
            THEN /\ resp' = Respond(400, [error |-> "bind"])
                 /\ pc' = "done"
                 /\ req' = [kind |-> "post", relations |-> ParseRelations(page)]
            ELSE \E payload \in Payloads :
                   /\ req' = [kind |-> "post", relations |-> ParseRelations(page),
                              payload |-> payload]
                   /\ pc' = "post_insert"
                   /\ resp' = resp

\* A handler that goes on to the pivot tables after a refused main insert.
PostInsertGoingOn ==
  /\ pc = "post_insert"
  /\ UNCHANGED <<page>>
  /\ LET split == SplitPayload(req.payload, EmptyMap, req.relations)
         simpleFields == split.payload
     IN \E order \in Orders(DOMAIN simpleFields) : \E ok \in BOOLEAN :
          LET r == InsertDynamic(db, page.tableName, simpleFields, order, ok)
              first == NextPivotRel(req.relations, split.m2mFields, 1)
          IN /\ db' = r.db
             /\ queries' = queries \o r.qs
             /\ hist' = [hist EXCEPT !.failed = IF r.qs # <<>> /\ r.err THEN @ + 1 ELSE @]
             /\ req' = req @@ [m2mFields |-> split.m2mFields, newID |-> r.id,
                               r |-> first, i |-> 1]
             /\ IF first > Len(req.relations)
                THEN pc' = "done" /\ resp' = Created(r.id)
                ELSE pc' = "post_pivot" /\ resp' = resp

\* The payload split, then InsertDynamic of the simple fields.
PostInsert ==
  /\ pc = "post_insert"
  /\ UNCHANGED <<page>>
  /\ LET split == SplitPayload(req.payload, EmptyMap, req.relations)
         simpleFields == split.payload
     IN \E order \in Orders(DOMAIN simpleFields) : \E ok \in BOOLEAN :
          LET r == InsertDynamic(db, page.tableName, simpleFields, order, ok)
              first == NextPivotRel(req.relations, split.m2mFields, 1)
          IN /\ db' = r.db
             /\ queries' = queries \o r.qs
             /\ hist' = [hist EXCEPT !.failed = IF r.qs # <<>> /\ r.err THEN @ + 1 ELSE @]
             /\ req' = req @@ [m2mFields |-> split.m2mFields, newID |-> r.id,
                               r |-> first, i |-> 1]
             /\ IF r.err
                THEN pc' = "done" /\ resp' = Respond(500, [error |-> "insert"])
                ELSE IF first > Len(req.relations)
                THEN pc' = "done" /\ resp' = Created(r.id)
                ELSE pc' = "post_pivot" /\ resp' = resp

\* The edges of the right ids added to the pivot table in one statement.
RECURSIVE AllEdges(_, _)
AllEdges(leftID, rightIDs) ==
  IF rightIDs = <<>> THEN <<>>
  ELSE <<Edge(leftID, Head(rightIDs))>> \o AllEdges(leftID, Tail(rightIDs))

\* A pivot step that writes all the edges of relation req.r at once.
PostPivotAtOnce ==
  /\ pc = "post_pivot"
  /\ UNCHANGED <<page>>
  /\ LET rel == req.relations[req.r]
         rightIDs == RightIDsOf(req.m2mFields, rel)
         pivotTable == pivotTableName(page.tableName, rel)
         nr == NextPivotRel(req.relations, req.m2mFields, req.r + 1)
     IN \E ok \in BOOLEAN :
          LET done == ok /\ pivotTable \in DOMAIN db
          IN /\ db' = IF done
                      THEN [db EXCEPT ![pivotTable] = @ \o AllEdges(req.newID, rightIDs)]
                      ELSE db
             /\ queries' = Append(queries, PivotStmt(pivotTable, req.newID, rightIDs[1]))
             /\ hist' = [hist EXCEPT !.failed = IF done THEN @ ELSE @ + 1]
             /\ IF nr <= Len(req.relations)
                THEN /\ req' = [req EXCEPT !.r = nr, !.i = 1]
                     /\ pc' = "post_pivot" /\ resp' = resp
                ELSE /\ req' = req
                     /\ pc' = "done" /\ resp' = Created(req.newID)

\* One db.Exec of the InsertPivotM2M of relation req.r; its error is
\* printed and the loop over the relations goes on.
PostPivot ==
  /\ pc = "post_pivot"
  /\ UNCHANGED <<page>>
  /\ LET rel == req.relations[req.r]
         rightIDs == RightIDsOf(req.m2mFields, rel)
         pivotTable == pivotTableName(page.tableName, rel)
     IN \E ok \in BOOLEAN :
          LET r == PivotExec(db, pivotTable, req.newID, rightIDs[req.i], ok)
              n == PivotNext(rightIDs, req.i, r.err)
              nr == NextPivotRel(req.relations, req.m2mFields, req.r + 1)
          IN /\ db' = r.db
             /\ queries' = Append(queries, r.q)
             /\ hist' = [hist EXCEPT !.failed = IF r.err THEN @ + 1 ELSE @]
             /\ IF ~n.done
                THEN /\ req' = [req EXCEPT !.i = n.i]
                     /\ pc' = "post_pivot" /\ resp' = resp
                ELSE IF nr <= Len(req.relations)
                THEN /\ req' = [req EXCEPT !.r = nr, !.i = 1]
                     /\ pc' = "post_pivot" /\ resp' = resp
                ELSE /\ req' = req
                     /\ pc' = "done" /\ resp' = Created(req.newID)

WriteSchemas ==
  { <<Rel("one-to-one", A, U, <<>>), Rel("many-to-many", G, T, <<>>)>>,
    <<Rel("many-to-many", G, T, <<>>), Rel("many-to-many", H, U, <<>>)>> }

WritePages ==
  {PageOf(FALSE, FALSE, NilDoc), [PageOf(TRUE, TRUE, NilDoc) EXCEPT !.tableName = <<>>],
   PageOf(TRUE, TRUE, NilDoc), PageOf(TRUE, TRUE, BadDoc)}
  \cup {PageOf(TRUE, TRUE, Doc(rels)) : rels \in WriteSchemas}

\* The databases a write is made on: the page table missing, empty or with
\* one row, each pivot table missing, empty or with one edge.
WriteDatabases(pageTable, rels) ==
  LET pivots == {pivotTableName(pageTable, rels[i]) :
                   i \in {j \in 1..Len(rels) : IsM2M(rels[j])}}
  IN {Existing(pt) @@ Existing(pf) :
        pt \in [{PG} -> TableOptions({<<>>, <<PageRow(1, Null)>>})],
        pf \in [pivots -> TableOptions({<<>>, <<Edge(<<"1">>, <<"7">>)>>})]}

InitWrite ==
  /\ page \in WritePages
  /\ db \in WriteDatabases(page.tableName, ParseRelations(page))
  /\ pc = "idle"
  /\ req = [kind |-> "none"]
  /\ queries = <<>>
  /\ resp = NoResp
  /\ hist = [db0 |-> db, failed |-> 0]

NextWrite ==
  \/ PostStart
  \/ PostInsert
  \/ PostPivot

SpecWrite == InitWrite /\ [][NextWrite]_vars


\* ------------------------------------- a write followed by a resolution
\* The page whose table the write and the resolution are made on.
RoundPage ==
  PageOf(TRUE, TRUE, Doc(<<Rel("one-to-one", A, U, <<>>), Rel("many-to-many", G, T, <<>>)>>))

\* InsertDynamic on the table of the page, before the request is served.
RoundInsert ==
  /\ pc = "idle"
  /\ "inserted" \notin DOMAIN hist
  /\ UNCHANGED <<page, pc, req, resp>>
  /\ \E fields \in FieldMaps : \E order \in Orders(DOMAIN fields) : \E ok \in BOOLEAN :
       LET r == InsertDynamic(db, page.tableName, fields, order, ok)
       IN /\ db' = r.db
          /\ queries' = queries \o r.qs
          /\ hist' = [db0 |-> hist.db0,
                      failed |-> IF r.qs # <<>> /\ r.err THEN hist.failed + 1 ELSE hist.failed,
                      inserted |-> [fields |-> fields, id |-> r.id, err |-> r.err]]

\* The page table empty or with one row, the target table U, the pivot
\* table of the many-to-many relation missing, empty or with one edge.
RoundDatabases ==
  {(PG :> rows) @@ Existing(tf) @@ Existing(pf) :
     rows \in {<<>>, <<WRow>>},
     tf \in [{U} -> TableOptions({TargetRows(ids) : ids \in TargetIdSets})],
     pf \in [{pivotTableName(PG, RoundPage.schemaRelationsDeployed.rels[2])} ->
               TableOptions(EdgeSeqs)]}

InitRound ==
  /\ page = RoundPage
  /\ db \in RoundDatabases
  /\ pc = "idle"
  /\ req = [kind |-> "none"]
  /\ queries = <<>>
  /\ resp = NoResp
  /\ hist = [db0 |-> db, failed |-> 0]

NextRound ==
  \/ RoundInsert
  \/ ItemStart
  \/ ItemRow
  \/ ItemPivots
  \/ ItemBatch
  \/ ItemSubstitute

SpecRound == InitRound /\ [][NextRound]_vars

\* ------------------------------------------- the edges of a row rewritten
ClearStmt(pivotTable, leftID) ==
  Stmt("DELETE FROM %s WHERE left_id = $1", << <<quoteIdent(pivotTable)>> >>, <<leftID>>)

\* A ClearPivot whose DELETE removes no row.
ClearPivotKeeping(d, pivotTable, leftID, ok) ==
  [db |-> d, q |-> ClearStmt(pivotTable, leftID),
   err |-> ~(ok /\ TableExists(d, quoteIdent(pivotTable)))]

\* ClearPivot(db, pivotTable, leftID): the DELETE run by the database.
ClearPivot(d, pivotTable, leftID, ok) ==
  LET q == ClearStmt(pivotTable, leftID)
      name == IdentName(q.subst[1][1])
      Keep(row) == row[LEFT].s # q.args[1]
  IN IF ok /\ name \in DOMAIN d
     THEN [db |-> [d EXCEPT ![name] = SelectSeq(@, Keep)], q |-> q, err |-> FALSE]
     ELSE [db |-> d, q |-> q, err |-> TRUE]

\* How many times the caller rewrites the edges of the row.
Rounds == 2

\* A caller rewrites the edges of a row: ClearPivot then InsertPivotM2M
\* with the same right ids, Rounds times, stopping at the first error.
RewriteStart ==
  /\ pc = "idle"
  /\ UNCHANGED <<db, page, queries, hist, resp>>
  /\ \E leftID \in LeftIds : \E rightIDs \in DistinctSeqs(RightIds, MaxRight) :
       req' = [kind |-> "rewrite", pivotTable |-> X, leftID |-> leftID,
               rightIDs |-> rightIDs, round |-> 1, i |-> 1]
  /\ pc' = "rw_clear"

\* Where the caller stands after a InsertPivotM2M that returned nil.
RewriteAfterInsert(round) ==
  IF round < Rounds THEN [pc |-> "rw_clear", round |-> round + 1]
  ELSE [pc |-> "done", round |-> round]

RewriteClear ==
  /\ pc = "rw_clear"
  /\ UNCHANGED <<page>>
  /\ \E ok \in BOOLEAN :
       LET r == ClearPivot(db, req.pivotTable, req.leftID, ok)
           after == RewriteAfterInsert(req.round)
       IN /\ db' = r.db
          /\ queries' = Append(queries, r.q)
          /\ hist' = [hist EXCEPT !.failed = IF r.err THEN @ + 1 ELSE @]
          /\ IF r.err
             THEN /\ pc' = "done" /\ req' = req
                  /\ resp' = [status |-> 0, err |-> TRUE]
             ELSE IF Len(req.rightIDs) = 0
             THEN /\ pc' = after.pc
                  /\ req' = [req EXCEPT !.round = after.round]
                  /\ resp' = IF after.pc = "done" THEN [status |-> 0, err |-> FALSE] ELSE resp
             ELSE /\ pc' = "rw_insert"
                  /\ req' = [req EXCEPT !.i = 1]
                  /\ resp' = resp

RewriteInsert ==
  /\ pc = "rw_insert"
  /\ UNCHANGED <<page>>
  /\ \E ok \in BOOLEAN :
       LET r == PivotExec(db, req.pivotTable, req.leftID, req.rightIDs[req.i], ok)
           n == PivotNext(req.rightIDs, req.i, r.err)
           after == RewriteAfterInsert(req.round)
       IN /\ db' = r.db
          /\ queries' = Append(queries, r.q)
          /\ hist' = [hist EXCEPT !.failed = IF r.err THEN @ + 1 ELSE @]
          /\ IF ~n.done
             THEN /\ req' = [req EXCEPT !.i = n.i]
                  /\ pc' = "rw_insert" /\ resp' = resp
             ELSE IF n.err
             THEN /\ pc' = "done" /\ req' = req
                  /\ resp' = [status |-> 0, err |-> TRUE]
             ELSE /\ pc' = after.pc
                  /\ req' = [req EXCEPT !.round = after.round]
                  /\ resp' = IF after.pc = "done" THEN [status |-> 0, err |-> FALSE] ELSE resp

InitRewrite ==
  /\ page = PageOf(FALSE, FALSE, NilDoc)
  /\ db \in {Existing(f) : f \in [{X} -> TableOptions(EdgeSeqs)]}
  /\ pc = "idle"
  /\ req = [kind |-> "none"]
  /\ queries = <<>>
  /\ resp = NoResp
  /\ hist = [db0 |-> db, failed |-> 0]

NextRewrite ==
  \/ RewriteStart
  \/ RewriteClear
  \/ RewriteInsert

SpecRewrite == InitRewrite /\ [][NextRewrite]_vars

\* ------------------------------------------------ the naming functions
\* The longest identifier handed to quoteIdent.
MaxIdent == 3

PAGES == <<"p","a","g","e","s">>
TAGS == <<"t","a","g","s">>

\* Table names, column names and explicit pivot names with letters of both
\* cases, digits and underscores.
NameTables == {PAGES, <<"P","a","g","e","s">>, <<"B","L","O","G","_","2">>}
NameColumns == {TAGS, <<"T","a","g","s">>, <<"t","a","g","I","d">>}
NameTargets == {TAGS, <<"U","s","e","r","s">>, <<"t","_","1">>}
NamePivots == {<<>>, <<"M","y","_","P","i","v","o","t">>, <<"l","i","n","k","s">>}

\* The characters of the identifiers: a letter of each case, the double
\* quote.
IdentChars == {"a", "B", "\""}

Idents == SeqsUpTo(IdentChars, MaxIdent)

CallPivotTableName ==
  /\ pc = "idle"
  /\ UNCHANGED <<db, page, queries, hist>>
  /\ \E table \in NameTables : \E from \in NameColumns : \E to \in NameTargets :
     \E pivot \in NamePivots :
       LET rel == Rel("many-to-many", from, to, pivot)
       IN /\ req' = [kind |-> "pivotTableName", pageTable |-> table, rel |-> rel]
          /\ resp' = [status |-> 0, name |-> pivotTableName(table, rel)]
  /\ pc' = "done"

\* quoteIdent called on two identifiers.
CallQuoteIdent ==
  /\ pc = "idle"
  /\ UNCHANGED <<db, page, queries, hist>>
  /\ \E ident \in Idents : \E other \in Idents :
       /\ req' = [kind |-> "quoteIdent", ident |-> ident, other |-> other]
       /\ resp' = [status |-> 0, quoted |-> quoteIdent(ident),
                   otherQuoted |-> quoteIdent(other)]
  /\ pc' = "done"

InitNames ==
  /\ page = PageOf(FALSE, FALSE, NilDoc)
  /\ db = EmptyMap
  /\ pc = "idle"
  /\ req = [kind |-> "none"]
  /\ queries = <<>>
  /\ resp = NoResp
  /\ hist = [db0 |-> db, failed |-> 0]

NextNames ==
  \/ CallPivotTableName
  \/ CallQuoteIdent

SpecNames == InitNames /\ [][NextNames]_vars

\* ------------------------------------------------- UpdateDynamic called
WRow2 == (ID :> IntV(<<"2">>)) @@ (N :> StrV(<<"z">>)) @@ (A :> IntV(<<"7">>))

UpdateFields ==
  FieldMaps \cup {(A :> Null), (N :> StrV(<<"y">>)), (G :> StrV(<<"x">>)),
                  (ID :> IntV(<<"2">>)), (N :> StrV(<<"x">>)) @@ (ID :> IntV(<<"1">>))}

CallUpdateDynamic ==
  /\ pc = "idle"
  /\ UNCHANGED <<page>>
  /\ \E table \in {W, PG} : \E id \in ItemIds \cup {<<"9">>} : \E fields \in UpdateFields :
     \E order \in Orders(DOMAIN fields) : \E ok \in BOOLEAN :
       LET r == UpdateDynamic(db, table, id, fields, order, ok)
       IN /\ db' = r.db
          /\ queries' = queries \o r.qs
          /\ req' = [kind |-> "UpdateDynamic", table |-> table, id |-> id,
                     fields |-> fields]
          /\ resp' = [status |-> 0, err |-> r.err]
          /\ hist' = [hist EXCEPT !.failed = IF r.qs # <<>> /\ r.err THEN @ + 1 ELSE @]
  /\ pc' = "done"

InitUpdate ==
  /\ page = PageOf(FALSE, FALSE, NilDoc)
  /\ db \in {Existing(f) :
               f \in [{W} -> TableOptions({<<>>, <<WRow>>, <<WRow, WRow2>>, <<WRow2, WRow>>})]}
  /\ pc = "idle"
  /\ req = [kind |-> "none"]
  /\ queries = <<>>
  /\ resp = NoResp
  /\ hist = [db0 |-> db, failed |-> 0]

NextUpdate ==
  \/ CallUpdateDynamic

SpecUpdate == InitUpdate /\ [][NextUpdate]_vars

\* ------------------------- relations that name the same pivot table
LINKS == <<"l","i","n","k","s">>

\* Two many-to-many relations of distinct source columns whose explicit
\* pivot name is the same, with distinct targets or the same target.
SharedSchemas ==
  { <<Rel("many-to-many", G, T, LINKS), Rel("many-to-many", H, U, LINKS)>>,
    <<Rel("many-to-many", G, T, LINKS), Rel("many-to-many", H, T, LINKS)>> }

\* The databases such a page is served from: the page table missing or
\* with up to MaxRows rows of an id alone, the targets and the pivot tables
\* as for the other pages.
SharedDatabases(pageTable, rels) ==
  LET targets == {rels[i].toTable : i \in 1..Len(rels)}
      pivots == {pivotTableName(pageTable, rels[i]) : i \in 1..Len(rels)}
  IN {Existing(pt) @@ Existing(tf) @@ Existing(pf) :
        pt \in [{pageTable} ->
                  TableOptions({[i \in 1..n |-> (ID :> IntV(Itoa(i)))] : n \in 0..MaxRows})],
        tf \in [targets -> TableOptions({TargetRows(ids) : ids \in TargetIdSets})],
        pf \in [pivots -> TableOptions(EdgeSeqs)]}

InitShared ==
  /\ page \in {PageOf(TRUE, TRUE, Doc(rels)) : rels \in SharedSchemas}
  /\ db \in SharedDatabases(page.tableName, ParseRelations(page))
  /\ pc = "idle"
  /\ req = [kind |-> "none"]
  /\ queries = <<>>
  /\ resp = NoResp
  /\ hist = [db0 |-> db, failed |-> 0]

SpecShared == InitShared /\ [][Next]_vars

\* -------------------------------------- one resolution after another
\* The handler returns: its locals (rows, pivot data, demand, cache) go
\* with it, and the next request starts from the page and the database.
CallReturns ==
  /\ pc = "done"
  /\ req.kind \in {"list", "item"}
  /\ "prev" \notin DOMAIN hist
  /\ UNCHANGED <<db, page>>
  /\ pc' = "idle"
  /\ req' = [kind |-> "none"]
  /\ resp' = NoResp
  /\ queries' = <<>>
  /\ hist' = hist @@ [prev |-> [req |-> req, resp |-> resp]]

\* The sequence without its i-th element.
Without(seq, i) == SubSeq(seq, 1, i - 1) \o SubSeq(seq, i + 1, Len(seq))

\* Between the two requests another client of the database deletes a target
\* row or a pivot edge.
OtherWriter ==
  /\ pc = "idle"
  /\ "prev" \in DOMAIN hist
  /\ "written" \notin DOMAIN hist
  /\ UNCHANGED <<page, pc, req, resp, queries>>
  /\ \E t \in DOMAIN db \ {page.tableName} : \E i \in 1..Len(db[t]) :
       /\ db' = [db EXCEPT ![t] = Without(@, i)]
       /\ hist' = [db0 |-> db', failed |-> hist.failed, prev |-> hist.prev,
                   written |-> TRUE]

\* The page table with one or two rows that hold a foreign key, the target
\* tables missing or with the row 7, the pivot table missing or with edges
\* of both rows.
SeqDatabases ==
  {(PG :> [i \in 1..n |-> PageRow(i, IntV(<<"7">>))]) @@ Existing(tf) @@ Existing(pf) :
     n \in {1, 2},
     tf \in [{U, T} -> TableOptions({TargetRows(ids) : ids \in TargetIdSets})],
     pf \in [{pivotTableName(PG, RoundPage.schemaRelationsDeployed.rels[2])} ->
               TableOptions({<<>>, <<Edge(<<"1">>, <<"7">>)>>,
                             <<Edge(<<"1">>, <<"8">>), Edge(<<"1">>, <<"7">>)>>,
                             <<Edge(<<"2">>, <<"7">>), Edge(<<"1">>, <<"7">>)>>})]}

InitSeq ==
  /\ page = RoundPage
  /\ db \in SeqDatabases
  /\ pc = "idle"
  /\ req = [kind |-> "none"]
  /\ queries = <<>>
  /\ resp = NoResp
  /\ hist = [db0 |-> db, failed |-> 0]

NextSeq ==
  \/ Next
  \/ CallReturns
  \/ OtherWriter

SpecSeq == InitSeq /\ [][NextSeq]_vars

\* ------------------------------------ a resolution during a write
\* While POST /page/:id is served, another request resolves one item of the
\* page: GET /page/:id/:itemId, its queries run between two statements of
\* the write.
ReaderResolves ==
  /\ "seen" \notin DOMAIN hist
  /\ UNCHANGED <<db, page, pc, req, resp>>
  /\ \E itemID \in ItemIds :
       LET rels == ParseRelations(page)
           q == quoteIdent(page.tableName)
           found == IF TableExists(db, q) THEN SelectById(db, q, itemID) ELSE <<>>
           first == <<ItemRowStmt(page.tableName, itemID), ColumnsStmt(page.tableName)>>
       IN IF found = <<>>
          THEN /\ queries' = queries \o first
               /\ hist' = hist @@ [seen |-> [itemID |-> itemID, at |-> pc,
                                             resp |-> Respond(404, [error |-> "Item introuvable"])]]
          ELSE LET pv == ItemPivotLoop(db, page.tableName, rels, itemID,
                                       [pivotData |-> EmptyMap,
                                        fk |-> ItemFKLoop(EmptyMap, rels, found[1]),
                                        qs |-> <<>>])
               IN \E order \in Orders(DOMAIN pv.fk) :
                    LET bl == batchLoadRelated(db, pv.fk, order)
                        item == ItemSubst(found[1], rels, page.tableName,
                                          pv.pivotData, bl.cache)
                        deps == DepsLoop(db, rels, {}, [deps |-> EmptyMap, qs |-> <<>>])
                    IN /\ queries' = queries \o first \o pv.qs \o bl.qs \o deps.qs
                       /\ hist' = hist @@ [seen |-> [itemID |-> itemID, at |-> pc,
                                                     resp |-> Respond(200, [item |-> item,
                                                                dependencies |-> deps.deps])]]

InitConc ==
  /\ page \in {PageOf(TRUE, TRUE, Doc(rels)) : rels \in WriteSchemas}
  /\ db \in WriteDatabases(page.tableName, ParseRelations(page))
  /\ pc = "idle"
  /\ req = [kind |-> "none"]
  /\ queries = <<>>
  /\ resp = NoResp
  /\ hist = [db0 |-> db, failed |-> 0]

NextConc ==
  \/ PostStart
  \/ PostInsert
  \/ PostPivot
  \/ ReaderResolves

SpecConc == InitConc /\ [][NextConc]_vars

\* ------------------------------ relations declared on the same column
\* Two relations whose source column is the same: two foreign keys, a
\* foreign key and a many-to-many relation in both orders, two
\* many-to-many relations.
ClashSchemas ==
  { <<Rel("one-to-one", A, U, <<>>), Rel("one-to-many", A, T, <<>>)>>,
    <<Rel("one-to-one", A, U, <<>>), Rel("many-to-many", A, T, <<>>)>>,
    <<Rel("many-to-many", A, T, <<>>), Rel("one-to-one", A, U, <<>>)>>,
    <<Rel("many-to-many", A, T, <<>>), Rel("many-to-many", A, U, <<>>)>> }

\* The page table with one or two rows, the foreign key nil or 7, the
\* targets missing or with the row 7, each pivot table missing, empty or
\* with edges of the first row.
ClashDatabases(pageTable, rels) ==
  LET targets == {rels[i].toTable : i \in 1..Len(rels)}
      pivots == {pivotTableName(pageTable, rels[i]) :
                   i \in {j \in 1..Len(rels) : IsM2M(rels[j])}}
  IN {(pageTable :> [i \in 1..n |-> PageRow(i, f[i])]) @@ Existing(tf) @@ Existing(pf) :
        n \in {1, 2}, f \in [{1, 2} -> {Null, IntV(<<"7">>)}],
        tf \in [targets -> TableOptions({TargetRows(ids) : ids \in TargetIdSets})],
        pf \in [pivots -> TableOptions({<<>>, <<Edge(<<"1">>, <<"7">>)>>,
                                        <<Edge(<<"1">>, <<"8">>), Edge(<<"1">>, <<"7">>)>>})]}

InitClash ==
  /\ page \in {PageOf(TRUE, TRUE, Doc(rels)) : rels \in ClashSchemas}
  /\ db \in ClashDatabases(page.tableName, ParseRelations(page))
  /\ pc = "idle"
  /\ req = [kind |-> "none"]
  /\ queries = <<>>
  /\ resp = NoResp
  /\ hist = [db0 |-> db, failed |-> 0]

SpecClash == InitClash /\ [][Next]_vars

\* ---------------- a listing and an item resolution of the same page
\* Two requests in a row on a page whose relations share a pivot table, the
\* database untouched between them.
NextTwice ==
  \/ Next
  \/ CallReturns

SpecTwice == InitShared /\ [][NextTwice]_vars

\* ------------------------------- associations written, then resolved
\* POST /page/:id returns: what it was asked, what it answered and the
\* statements it made are kept; its locals go with it.
WriteReturns ==
  /\ pc = "done"
  /\ req.kind = "post"
  /\ "post" \notin DOMAIN hist
  /\ UNCHANGED <<db, page>>
  /\ pc' = "idle"
  /\ req' = [kind |-> "none"]
  /\ resp' = NoResp
  /\ queries' = <<>>
  /\ hist' = hist @@ [post |-> [req |-> req, resp |-> resp, queries |-> queries]]

\* The page table empty or with one row, the target tables missing, with
\* the row 7 or with the rows 7 and 1000000, each pivot table empty or with
\* one edge of the row 1.
AssocDatabases(pageTable, rels) ==
  LET pivots == {pivotTableName(pageTable, rels[i]) :
                   i \in {j \in 1..Len(rels) : IsM2M(rels[j])}}
      targets == {rels[i].toTable : i \in 1..Len(rels)}
  IN {(PG :> rows) @@ Existing(tf) @@ pf :
        rows \in {<<>>, <<PageRow(1, Null)>>},
        tf \in [targets -> TableOptions({TargetRows({<<"7">>}),
                                         TargetRows({<<"7">>, Million})})],
        pf \in [pivots -> {<<>>, <<Edge(<<"1">>, <<"7">>)>>}]}

InitAssoc ==
  /\ page \in {PageOf(TRUE, TRUE, Doc(rels)) : rels \in WriteSchemas}
  /\ db \in AssocDatabases(page.tableName, ParseRelations(page))
  /\ pc = "idle"
  /\ req = [kind |-> "none"]
  /\ queries = <<>>
  /\ resp = NoResp
  /\ hist = [db0 |-> db, failed |-> 0]

NextAssoc ==
  \/ PostStart
  \/ PostInsert
  \/ PostPivot
  \/ WriteReturns
  \/ ItemStart
  \/ ItemRow
  \/ ItemPivots
  \/ ItemBatch
  \/ ItemSubstitute

SpecAssoc == InitAssoc /\ [][NextAssoc]_vars

\* ------------------------------------ the cache over names with a colon
\* Two target tables, the name of the second being the name of the first,
\* a colon and more; ids that are text, with or without a colon.
TC == T \o <<":", "u">>
TextIds == {<<"7">>, <<"u", ":", "7">>}

TextRows ==
  {<<>>, <<(ID :> StrV(<<"7">>))>>, <<(ID :> StrV(<<"u", ":", "7">>))>>,
   <<(ID :> StrV(<<"7">>)), (ID :> StrV(<<"u", ":", "7">>))>>}

CacheDatabases == {Existing(f) : f \in [{T, TC} -> TableOptions(TextRows)]}

CacheDemands == UNION {[tables -> SUBSET TextIds] : tables \in SUBSET {T, TC}}

\* batchLoadRelated called with the ids a resolution collected.
CallBatchText ==
  /\ pc = "idle"
  /\ UNCHANGED <<db, page, hist>>
  /\ \E fk \in CacheDemands : \E order \in Orders(DOMAIN fk) :
       LET r == batchLoadRelated(db, fk, order)
       IN /\ queries' = queries \o r.qs
          /\ req' = [kind |-> "batchLoadRelated", fkByTable |-> fk]
          /\ resp' = [status |-> 0, cache |-> r.cache]
  /\ pc' = "done"

InitCache ==
  /\ page = PageOf(FALSE, FALSE, NilDoc)
  /\ db \in CacheDatabases
  /\ pc = "idle"
  /\ req = [kind |-> "none"]
  /\ queries = <<>>
  /\ resp = NoResp
  /\ hist = [db0 |-> db, failed |-> 0]

SpecCache == InitCache /\ [][CallBatchText]_vars

\* ------------------------------------------------- the navigation tree
\* In the navigation specifications db is the table of navigation items, a
\* sequence of rows in the order db.Find returns them; a row holds id,
\* parentID, lft, rgt, depth and isHeader.  Ids are numbers, NoParent is
\* the nil parent.
NoParent == 0

NavRow(id, parentID, lft, rgt, depth, isHeader) ==
  [id |-> id, parentID |-> parentID, lft |-> lft, rgt |-> rgt, depth |-> depth,
   isHeader |-> isHeader]

\* seedNavigation on an empty table: Administration, Settings and the six
\* entries of Settings.
SeedRows ==
  <<NavRow(1, NoParent, 1, 16, 0, TRUE), NavRow(2, 1, 2, 15, 1, FALSE)>>
  \o [k \in 1..6 |-> NavRow(2 + k, 2, 2 * k + 1, 2 * k + 2, 2, FALSE)]

seedNavigation(rows) == IF Len(rows) > 0 THEN rows ELSE SeedRows

\* A shift that leaves the rows whose rgt is the parent's rgt.
ShiftRgtStrict(rows, at) ==
  [i \in DOMAIN rows |-> IF rows[i].rgt > at THEN [rows[i] EXCEPT !.rgt = @ + 2]
                         ELSE rows[i]]

\* UPDATE navigation_items SET rgt = rgt + 2 WHERE rgt >= at
ShiftRgt(rows, at) ==
  [i \in DOMAIN rows |-> IF rows[i].rgt >= at THEN [rows[i] EXCEPT !.rgt = @ + 2]
                         ELSE rows[i]]

\* UPDATE navigation_items SET lft = lft + 2 WHERE lft > at
ShiftLft(rows, at) ==
  [i \in DOMAIN rows |-> IF rows[i].lft > at THEN [rows[i] EXCEPT !.lft = @ + 2]
                         ELSE rows[i]]

\* SELECT MAX(rgt): NULL on an empty table, and then the start is 1.
RootStart(rows) ==
  IF rows = <<>> THEN 1
  ELSE (CHOOSE m \in {rows[i].rgt : i \in DOMAIN rows} :
          \A i \in DOMAIN rows : rows[i].rgt <= m) + 1

\* tx.First(&parent, "id = ?", parentID): the rows of that id.
NavById(rows, id) == SelectSeq(rows, LAMBDA r : r.id = id)

\* The row the handler creates under the parent it read.
PlaceUnder(id, parent, isHeader) ==
  NavRow(id, parent.id, parent.rgt, parent.rgt + 1, parent.depth + 1, isHeader)

\* The row the handler creates at the root.
PlaceRoot(id, rows, isHeader) ==
  NavRow(id, NoParent, RootStart(rows), RootStart(rows) + 1, 0, isHeader)

\* DELETE FROM navigation_items WHERE id = ?, the foreign key of the rows
\* below set to NULL (OnDelete:SET NULL).
DeleteNav(rows, id) ==
  LET kept == SelectSeq(rows, LAMBDA r : r.id # id)
  IN [i \in DOMAIN kept |-> IF kept[i].parentID = id
                            THEN [kept[i] EXCEPT !.parentID = NoParent] ELSE kept[i]]

\* The insertions and deletions of one run.
MaxNavOps == 3

\* The isHeader a body gives: as in the seed, only a root item is a header.
HeaderFlags(parentID) == IF parentID = NoParent THEN BOOLEAN ELSE {FALSE}

\* POST /navigation (and POST /nav) served alone: the transaction commits
\* all its statements, or a refused statement rolls all of them back.
NavPost ==
  /\ hist.ops < MaxNavOps
  /\ UNCHANGED <<page, pc, queries>>
  /\ \E parentID \in {NoParent} \cup {db[i].id : i \in DOMAIN db} \cup {hist.next} :
     \E isHeader \in HeaderFlags(parentID) : \E ok \in BOOLEAN :
       LET found == NavById(db, parentID)
           input == [id |-> hist.next, parentID |-> parentID, isHeader |-> isHeader]
       IN /\ req' = [kind |-> "nav_post", input |-> input]
          /\ IF parentID # NoParent /\ found = <<>>
             THEN /\ db' = db
                  /\ resp' = Respond(400, [error |-> "Parent not found"])
                  /\ hist' = [hist EXCEPT !.ops = @ + 1]
             ELSE IF ~ok
             THEN /\ db' = db
                  /\ resp' = Respond(500, [error |-> "statement"])
                  /\ hist' = [hist EXCEPT !.ops = @ + 1]
             ELSE LET row == IF parentID # NoParent
                             THEN PlaceUnder(hist.next, found[1], isHeader)
                             ELSE PlaceRoot(hist.next, db, isHeader)
                      shifted == IF parentID # NoParent
                                 THEN ShiftLft(ShiftRgt(db, found[1].rgt), found[1].rgt)
                                 ELSE db
                  IN /\ db' = Append(shifted, row)
                     /\ resp' = Respond(201, [data |-> row])
                     /\ hist' = [hist EXCEPT !.ops = @ + 1, !.next = @ + 1]

\* DELETE /navigation/:id (and DELETE /nav/:id, which answers 404 for an id
\* without row).
NavDelete ==
  /\ hist.ops < MaxNavOps
  /\ UNCHANGED <<page, pc, queries>>
  /\ \E id \in {db[i].id : i \in DOMAIN db} \cup {hist.next} : \E ok \in BOOLEAN :
       /\ req' = [kind |-> "nav_delete", id |-> id]
       /\ hist' = [hist EXCEPT !.ops = @ + 1]
       /\ IF ok
          THEN db' = DeleteNav(db, id) /\ resp' = [status |-> 204]
          ELSE db' = db /\ resp' = Respond(500, [error |-> "statement"])

InitNav ==
  /\ db \in {<<>>, seedNavigation(<<>>)}
  /\ page = PageOf(FALSE, FALSE, NilDoc)
  /\ pc = "idle"
  /\ req = [kind |-> "none"]
  /\ queries = <<>>
  /\ resp = NoResp
  /\ hist = [ops |-> 0, next |-> Len(db) + 1]

NextNav ==
  \/ NavPost
  \/ NavDelete

SpecNav == InitNav /\ [][NextNav]_vars

\* ------------------------------------------- two insertions at once
\* Two POST /navigation are served at once, each in its transaction, on a
\* PostgreSQL database at its default isolation level (read committed):
\* db is the committed table; a statement reads the committed rows and the
\* writes of its own transaction; an UPDATE waits while a row it matches is
\* written by the other transaction, and is taken to start when that
\* transaction ends.  req[t] holds the locals of transaction t: the rows it
\* has written and not committed (writes, by row id) and the row it has
\* created (created).
Txs == {1, 2}

\* The table as transaction t reads it.
TxView(t) ==
  [i \in DOMAIN db |-> IF db[i].id \in DOMAIN req[t].writes
                       THEN req[t].writes[db[i].id] ELSE db[i]]

\* The rows another transaction has written and not committed.
LockedByOther(t) == UNION {DOMAIN req[u].writes : u \in Txs \ {t}}

\* The rows a statement changes, by id.
Changed(before, after) ==
  LET I == {i \in DOMAIN before : before[i] # after[i]}
  IN [id \in {before[i].id : i \in I} |->
        after[CHOOSE i \in I : before[i].id = id]]

NoWrites == [x \in {} |-> 0]

TxLocals(input) == [kind |-> "nav_post", input |-> input, writes |-> NoWrites,
                    created |-> <<>>]

\* tx.Rollback(): the writes of the transaction are dropped.
TxRollback(t, status) ==
  /\ db' = db
  /\ req' = [req EXCEPT ![t].writes = NoWrites, ![t].created = <<>>]
  /\ pc' = [pc EXCEPT ![t] = "done"]
  /\ resp' = [resp EXCEPT ![t] = [status |-> status]]

\* The body is bound and the transaction begins.
TxBegin(t) ==
  /\ pc[t] = "idle"
  /\ UNCHANGED <<db, page, queries, resp, hist>>
  /\ \E parentID \in {NoParent} \cup {db[i].id : i \in DOMAIN db} \cup {Len(db) + 3} :
     \E isHeader \in HeaderFlags(parentID) :
       /\ req' = [req EXCEPT ![t] = TxLocals([id |-> Len(hist.db0) + t,
                                              parentID |-> parentID,
                                              isHeader |-> isHeader])]
       /\ pc' = [pc EXCEPT ![t] = "begun"]

\* The parent is read, or MAX(rgt) for a root item.
TxRead(t) ==
  /\ pc[t] = "begun"
  /\ UNCHANGED <<page, queries, hist>>
  /\ LET input == req[t].input
         found == NavById(TxView(t), input.parentID)
     IN IF input.parentID # NoParent
        THEN IF found = <<>>
             THEN TxRollback(t, 400)
             ELSE /\ req' = [req EXCEPT ![t] = @ @@ [parent |-> found[1]]]
                  /\ pc' = [pc EXCEPT ![t] = "parent"]
                  /\ UNCHANGED <<db, resp>>
        ELSE \E ok \in BOOLEAN :
               IF ~ok THEN TxRollback(t, 500)
               ELSE /\ req' = [req EXCEPT ![t] = @ @@
                                 [row |-> PlaceRoot(input.id, TxView(t), input.isHeader)]]
                    /\ pc' = [pc EXCEPT ![t] = "placed"]
                    /\ UNCHANGED <<db, resp>>

\* UPDATE ... SET rgt = rgt + 2 WHERE rgt >= parent.Rgt
TxShiftRgt(t) ==
  /\ pc[t] = "parent"
  /\ UNCHANGED <<page, queries, hist>>
  /\ LET view == TxView(t)
         w == Changed(view, ShiftRgt(view, req[t].parent.rgt))
     IN /\ DOMAIN w \cap LockedByOther(t) = {}
        /\ \E ok \in BOOLEAN :
             IF ~ok THEN TxRollback(t, 500)
             ELSE /\ req' = [req EXCEPT ![t].writes = w @@ @]
                  /\ pc' = [pc EXCEPT ![t] = "rgt"]
                  /\ UNCHANGED <<db, resp>>

\* UPDATE ... SET lft = lft + 2 WHERE lft > parent.Rgt, then the row of
\* the input is placed at the parent's rgt as it was read.
TxShiftLft(t) ==
  /\ pc[t] = "rgt"
  /\ UNCHANGED <<page, queries, hist>>
  /\ LET view == TxView(t)
         w == Changed(view, ShiftLft(view, req[t].parent.rgt))
     IN /\ DOMAIN w \cap LockedByOther(t) = {}
        /\ \E ok \in BOOLEAN :
             IF ~ok THEN TxRollback(t, 500)
             ELSE /\ req' = [req EXCEPT ![t] =
                               [@ EXCEPT !.writes = w @@ @]
                               @@ [row |-> PlaceUnder(req[t].input.id, req[t].parent,
                                                      req[t].input.isHeader)]]
                  /\ pc' = [pc EXCEPT ![t] = "placed"]
                  /\ UNCHANGED <<db, resp>>

\* tx.Create(&input)
TxCreate(t) ==
  /\ pc[t] = "placed"
  /\ UNCHANGED <<page, queries, hist>>
  /\ \E ok \in BOOLEAN :
       IF ~ok THEN TxRollback(t, 500)
       ELSE /\ req' = [req EXCEPT ![t].created = <<req[t].row>>]
            /\ pc' = [pc EXCEPT ![t] = "created"]
            /\ UNCHANGED <<db, resp>>

\* tx.Commit(): the writes and the created row become the committed table.
TxCommit(t) ==
  /\ pc[t] = "created"
  /\ UNCHANGED <<page, queries>>
  /\ db' = TxView(t) \o req[t].created
  /\ hist' = [hist EXCEPT !.committed = @ \cup {t}]
  /\ req' = [req EXCEPT ![t].writes = NoWrites]
  /\ pc' = [pc EXCEPT ![t] = "done"]
  /\ resp' = [resp EXCEPT ![t] = [status |-> 201]]

\* The committed tables two insertions meet: empty, one root, a root with a
\* child, two roots, the seeded table.
TxTables ==
  {<<>>,
   <<NavRow(1, NoParent, 1, 2, 0, TRUE)>>,
   <<NavRow(1, NoParent, 1, 4, 0, TRUE), NavRow(2, 1, 2, 3, 1, FALSE)>>,
   <<NavRow(1, NoParent, 1, 2, 0, TRUE), NavRow(2, NoParent, 3, 4, 0, TRUE)>>,
   seedNavigation(<<>>)}

InitNavTx ==
  /\ db \in TxTables
  /\ page = PageOf(FALSE, FALSE, NilDoc)
  /\ pc = [t \in Txs |-> "idle"]
  /\ req = [t \in Txs |-> [kind |-> "none", writes |-> NoWrites, created |-> <<>>]]
  /\ queries = <<>>
  /\ resp = [t \in Txs |-> NoResp]
  /\ hist = [db0 |-> db, committed |-> {}]

NextNavTx ==
  \E t \in Txs :
    \/ TxBegin(t)
    \/ TxRead(t)
    \/ TxShiftRgt(t)
    \/ TxShiftLft(t)
    \/ TxCreate(t)
    \/ TxCommit(t)

SpecNavTx == InitNavTx /\ [][NextNavTx]_vars

\* ------------------------------------------- token validation (redis)
\* In the token specifications db is the Redis database, a map from key to
\* [ttl |-> whether the key expires]; hist.active says which tokens the
\* identity provider holds active, hist.fresh which tokens have their exp
\* claim in the future, hist.reported which tokens an introspection has
\* reported active; pc, req and resp have one part for the middleware (mw)
\* and one for the refresher (rf).
Tokens == {<<"a">>, <<"b">>}

\* IntrospectToken: an error (environment, transport, decoding), or the
\* "active" of the identity provider's answer.
IntrospectToken(active, token, failed) ==
  IF failed THEN [active |-> FALSE, err |-> TRUE]
  ELSE [active |-> active[token], err |-> FALSE]

\* rdb.Set(ctx, rawToken, "valid", ttl)
RedisSet(rdb, key, ttl) == Put(rdb, key, [ttl |-> ttl])

\* rdb.Del(ctx, token)
RedisDel(rdb, key) == Del(rdb, key)

\* A middleware that lets a request through after a failed introspection.
MwIntrospectLenient ==
  /\ pc.mw = "introspect"
  /\ UNCHANGED <<db, page, queries>>
  /\ \E failed \in BOOLEAN :
       LET r == IntrospectToken(hist.active, req.mw.token, failed)
       IN /\ req' = [req EXCEPT !.mw = [@ EXCEPT !.introspected = TRUE,
                                                 !.active = r.active, !.err = r.err]]
          /\ hist' = [hist EXCEPT !.reported =
                        IF r.active THEN @ \cup {req.mw.token} ELSE @]
          /\ IF ~r.err /\ ~r.active
             THEN /\ pc' = [pc EXCEPT !.mw = "done"]
                  /\ resp' = [resp EXCEPT !.mw = Respond(401, [error |-> "Invalid token"])]
             ELSE /\ pc' = [pc EXCEPT !.mw = "admit"]
                  /\ resp' = resp

\* AuthMiddleware in redis mode, up to rdb.Exists: a token that is a key
\* goes on to the handlers.
MwExists ==
  /\ pc.mw = "idle"
  /\ UNCHANGED <<db, page, queries, hist>>
  /\ \E token \in Tokens : \E expErr \in BOOLEAN :
       LET exists == token \in DOMAIN db
       IN /\ req' = [req EXCEPT !.mw = [token |-> token, expErr |-> expErr,
                                        exists |-> exists, introspected |-> FALSE,
                                        active |-> FALSE, err |-> FALSE,
                                        wrote |-> FALSE]]
          /\ IF exists
             THEN /\ pc' = [pc EXCEPT !.mw = "done"]
                  /\ resp' = [resp EXCEPT !.mw = [status |-> 200]]
             ELSE /\ pc' = [pc EXCEPT !.mw = "introspect"]
                  /\ resp' = resp

\* The introspection of a token that is no key: an error or an inactive
\* token is answered 401.
MwIntrospect ==
  /\ pc.mw = "introspect"
  /\ UNCHANGED <<db, page, queries>>
  /\ \E failed \in BOOLEAN :
       LET r == IntrospectToken(hist.active, req.mw.token, failed)
       IN /\ req' = [req EXCEPT !.mw = [@ EXCEPT !.introspected = TRUE,
                                                 !.active = r.active, !.err = r.err]]
          /\ hist' = [hist EXCEPT !.reported =
                        IF r.active THEN @ \cup {req.mw.token} ELSE @]
          /\ IF r.err \/ ~r.active
             THEN /\ pc' = [pc EXCEPT !.mw = "done"]
                  /\ resp' = [resp EXCEPT !.mw = Respond(401, [error |-> "Invalid token"])]
             ELSE /\ pc' = [pc EXCEPT !.mw = "admit"]
                  /\ resp' = resp

\* GetTokenExp, the key set when the exp claim lies in the future, and the
\* request passed on.
MwAdmit ==
  /\ pc.mw = "admit"
  /\ UNCHANGED <<page, queries, hist>>
  /\ pc' = [pc EXCEPT !.mw = "done"]
  /\ IF req.mw.expErr
     THEN /\ resp' = [resp EXCEPT !.mw = Respond(401, [error |-> "Invalid token claims"])]
          /\ UNCHANGED <<db, req>>
     ELSE /\ resp' = [resp EXCEPT !.mw = [status |-> 200]]
          /\ IF hist.fresh[req.mw.token]
             THEN /\ db' = RedisSet(db, req.mw.token, TRUE)
                  /\ req' = [req EXCEPT !.mw.wrote = TRUE]
             ELSE UNCHANGED <<db, req>>

\* The middleware returns and serves the next request.
MwReturns ==
  /\ pc.mw = "done"
  /\ UNCHANGED <<db, page, queries, hist>>
  /\ pc' = [pc EXCEPT !.mw = "idle"]
  /\ req' = [req EXCEPT !.mw = [token |-> <<>>]]
  /\ resp' = [resp EXCEPT !.mw = NoResp]

\* The ticker fires: rdb.Keys(ctx, "*"), in any order.
PassStart ==
  /\ pc.rf = "idle"
  /\ UNCHANGED <<db, page, queries, resp, hist>>
  /\ \E keys \in Orders(DOMAIN db) :
       /\ req' = [req EXCEPT !.rf = [keys |-> keys, i |-> 1, ttl |-> FALSE,
                                     active |-> FALSE, err |-> FALSE]]
       /\ pc' = [pc EXCEPT !.rf = IF keys = <<>> THEN "idle" ELSE "ttl"]

\* Where the pass stands after a token: at the next one, or at its end.
AfterToken(rf) == IF rf.i < Len(rf.keys) THEN "ttl" ELSE "idle"

\* CleanTokenWithoutTTL: the key without TTL is deleted.
CleanTokenWithoutTTL ==
  /\ pc.rf = "ttl"
  /\ UNCHANGED <<page, queries, resp, hist>>
  /\ LET token == req.rf.keys[req.rf.i]
     IN IF token \in DOMAIN db /\ ~db[token].ttl
        THEN /\ db' = RedisDel(db, token)
             /\ req' = [req EXCEPT !.rf = [@ EXCEPT !.i = @ + 1, !.ttl = FALSE]]
             /\ pc' = [pc EXCEPT !.rf = AfterToken(req.rf)]
        ELSE /\ db' = db
             /\ req' = [req EXCEPT !.rf.ttl = TRUE]
             /\ pc' = [pc EXCEPT !.rf = "introspect"]

\* ProcessToken: the introspection of the key.
ProcessIntrospect ==
  /\ pc.rf = "introspect"
  /\ UNCHANGED <<db, page, queries, resp>>
  /\ \E failed \in BOOLEAN :
       LET r == IntrospectToken(hist.active, req.rf.keys[req.rf.i], failed)
       IN /\ req' = [req EXCEPT !.rf = [@ EXCEPT !.active = r.active, !.err = r.err]]
          /\ hist' = [hist EXCEPT !.reported =
                        IF r.active THEN @ \cup {req.rf.keys[req.rf.i]} ELSE @]
          /\ pc' = [pc EXCEPT !.rf = "decide"]

\* A pass that keeps the key of a token reported inactive.
ProcessTokenKeeping ==
  /\ pc.rf = "decide"
  /\ UNCHANGED <<page, queries, resp, hist>>
  /\ db' = IF req.rf.err THEN RedisDel(db, req.rf.keys[req.rf.i]) ELSE db
  /\ req' = [req EXCEPT !.rf.i = @ + 1]
  /\ pc' = [pc EXCEPT !.rf = AfterToken(req.rf)]

\* ProcessToken: the key is deleted after an error or an inactive answer.
ProcessToken ==
  /\ pc.rf = "decide"
  /\ UNCHANGED <<page, queries, resp, hist>>
  /\ db' = IF req.rf.err \/ ~req.rf.active
           THEN RedisDel(db, req.rf.keys[req.rf.i]) ELSE db
  /\ req' = [req EXCEPT !.rf.i = @ + 1]
  /\ pc' = [pc EXCEPT !.rf = AfterToken(req.rf)]

\* The identity provider ends a token: revoked, logged out or expired.
Deactivate ==
  /\ UNCHANGED <<db, page, pc, req, queries, resp>>
  /\ \E token \in Tokens :
       /\ hist.active[token]
       /\ hist' = [hist EXCEPT !.active[token] = FALSE]

\* Time passes the exp claim of a token, and Redis drops the key that was
\* set to expire then.
Expire ==
  /\ UNCHANGED <<page, pc, req, queries, resp>>
  /\ \E token \in Tokens :
       /\ hist.fresh[token]
       /\ hist' = [hist EXCEPT !.fresh[token] = FALSE]
       /\ db' = IF token \in DOMAIN db /\ db[token].ttl /\ token \notin hist.foreign
                THEN RedisDel(db, token) ELSE db

\* A key that was in Redis before the server started expires at its own
\* time.
ExpireForeign ==
  /\ UNCHANGED <<page, pc, req, queries, resp, hist>>
  /\ \E token \in hist.foreign :
       /\ token \in DOMAIN db /\ db[token].ttl
       /\ db' = RedisDel(db, token)

AuthIdle ==
  /\ page = PageOf(FALSE, FALSE, NilDoc)
  /\ pc = [mw |-> "idle", rf |-> "idle"]
  /\ req = [mw |-> [token |-> <<>>],
            rf |-> [keys |-> <<>>, i |-> 1, ttl |-> FALSE, active |-> FALSE,
                    err |-> FALSE]]
  /\ queries = <<>>
  /\ resp = [mw |-> NoResp]

\* The server starts on an empty Redis database.
InitAuth ==
  /\ AuthIdle
  /\ db = EmptyMap
  /\ \E active \in [Tokens -> BOOLEAN] : \E fresh \in [Tokens -> BOOLEAN] :
       hist = [active |-> active, fresh |-> fresh, reported |-> {}, foreign |-> {}]

NextAuth ==
  \/ MwExists
  \/ MwIntrospect
  \/ MwAdmit
  \/ MwReturns
  \/ PassStart
  \/ CleanTokenWithoutTTL
  \/ ProcessIntrospect
  \/ ProcessToken
  \/ Deactivate
  \/ Expire

SpecAuth == InitAuth /\ [][NextAuth]_vars

\* The server starts on a Redis database that holds keys already, with or
\* without TTL.
InitRefresher ==
  /\ AuthIdle
  /\ db \in UNION {[keys -> {[ttl |-> TRUE], [ttl |-> FALSE]}] : keys \in SUBSET Tokens}
  /\ \E active \in [Tokens -> BOOLEAN] : \E fresh \in [Tokens -> BOOLEAN] :
       hist = [active |-> active, fresh |-> fresh, reported |-> {},
               foreign |-> DOMAIN db]

NextRefresher ==
  \/ NextAuth
  \/ ExpireForeign

\* The ticker fires every interval and the calls of a pass return.
SpecRefresher ==
  /\ InitRefresher
  /\ [][NextRefresher]_vars
  /\ WF_vars(PassStart)
  /\ WF_vars(CleanTokenWithoutTTL)
  /\ WF_vars(ProcessIntrospect)
  /\ WF_vars(ProcessToken)

\* ------------------------------------------------------ GET /navigation
\* A models.NavItem: the title (here the id of the item) and the children,
\* which are NavItem values, not pointers.
NavItem(title) == [title |-> title, children |-> <<>>]

\* children[*item.ParentID] = append(..., node) over the items, in order:
\* the ids of the items below each parent.
ChildrenOf(items, id) ==
  LET below == SelectSeq(items, LAMBDA r : r.parentID # NoParent /\ r.parentID = id)
  IN [k \in DOMAIN below |-> below[k].id]

\* The loop over the map tree in the given order: every node gets a copy
\* of each of its children as the child is at that moment.
RECURSIVE LinkTree(_, _, _)
LinkTree(tree, items, order) ==
  IF order = <<>> THEN tree
  ELSE LET id == Head(order)
           below == ChildrenOf(items, id)
           linked == [tree EXCEPT ![id].children =
                        @ \o [k \in DOMAIN below |-> tree[below[k]]]]
       IN LinkTree(linked, items, Tail(order))

\* One section per header item, with a copy of each of its children.
NavSections(tree, items) ==
  LET headers == SelectSeq(items, LAMBDA r : r.isHeader)
  IN [h \in DOMAIN headers |->
        [subheader |-> headers[h].id,
         items |-> LET below == ChildrenOf(items, headers[h].id)
                   IN [k \in DOMAIN below |-> tree[below[k]]]]]

\* GET /navigation: the map of nodes is walked in an order of Go's choice.
NavGet ==
  /\ UNCHANGED <<db, page, pc, queries, hist>>
  /\ req' = [kind |-> "nav_get"]
  /\ \E ok \in BOOLEAN :
       IF ~ok THEN resp' = Respond(500, [error |-> "find"])
       ELSE \E order \in Orders({db[i].id : i \in DOMAIN db}) :
              LET tree == [id \in {db[i].id : i \in DOMAIN db} |-> NavItem(id)]
              IN resp' = Respond(200, [sections |->
                                         NavSections(LinkTree(tree, db, order), db)])

InitTree ==
  /\ db \in {<<>>, <<NavRow(1, NoParent, 1, 2, 0, TRUE)>>}
  /\ page = PageOf(FALSE, FALSE, NilDoc)
  /\ pc = "idle"
  /\ req = [kind |-> "none"]
  /\ queries = <<>>
  /\ resp = NoResp
  /\ hist = [ops |-> 0, next |-> Len(db) + 1]

NextTree ==
  \/ NavPost
  \/ NavGet

SpecTree == InitTree /\ [][NextTree]_vars

\* ===================================================== properties
\* What the database holds, read directly (not through the handlers).
TargetHas(d, table, id) ==
  table \in DOMAIN d /\ \E i \in 1..Len(d[table]) : HasId(d[table][i], id)

\* The right ids of the pivot rows of one left id, in table order.
EdgesOf(d, pivot, left) ==
  IF pivot \in DOMAIN d
  THEN LET rows == SelectSeq(d[pivot], LAMBDA e : e[LEFT].s = left)
       IN [i \in 1..Len(rows) |-> rows[i][RIGHT].s]
  ELSE <<>>

\* The source rows a finished resolution answered for, each with the row
\* it returned: <<raw row, output row>>.
Resolved ==
  IF pc = "done" /\ resp.status = 200 /\ req.kind = "list"
  THEN {<<db[page.tableName][i], resp.data[i]>> : i \in 1..Len(resp.data)}
  ELSE IF pc = "done" /\ resp.status = 200 /\ req.kind = "item"
  THEN {<<SelectById(db, quoteIdent(page.tableName), req.itemID)[1], resp.item>>}
  ELSE {}

Declared == IF "relations" \in DOMAIN req THEN Range(req.relations) ELSE {}

\* C2: a relation that references a target id with no row in the target
\* table keeps the raw id in the output, in the listing and in the item
\* route: the foreign-key scalar is left as it was, and the many-to-many list
\* holds the right id as a string at the position of its edge.
MissingTargetKeepsRawId ==
  \A p \in Resolved : \A rel \in Declared :
    LET raw == p[1]
        out == p[2]
        edges == EdgesOf(db, pivotTableName(page.tableName, rel), Sprintf(raw[ID]))
    IN /\ (IsFK(rel) /\ HasFK(raw, rel)
           /\ ~TargetHas(db, rel.toTable, Sprintf(raw[rel.fromColumn])))
          => (rel.fromColumn \in DOMAIN out /\ out[rel.fromColumn] = raw[rel.fromColumn])
       /\ IsM2M(rel)
          => /\ rel.fromColumn \in DOMAIN out
             /\ out[rel.fromColumn].t = "list"
             /\ Len(out[rel.fromColumn].l) = Len(edges)
             /\ \A k \in 1..Len(edges) :
                  ~TargetHas(db, rel.toTable, edges[k])
                  => out[rel.fromColumn].l[k] = StrV(edges[k])

\* A finished listing returned a foreign key and a many-to-many element whose
\* target rows do not exist.
MissingTargetWitness ==
  /\ req.kind = "list"
  /\ \E p \in Resolved : \E r1, r2 \in Declared :
       /\ IsFK(r1) /\ HasFK(p[1], r1)
       /\ ~TargetHas(db, r1.toTable, Sprintf(p[1][r1.fromColumn]))
       /\ p[2][r1.fromColumn] = p[1][r1.fromColumn]
       /\ IsM2M(r2)
       /\ \E k \in 1..Len(p[2][r2.fromColumn].l) :
            p[2][r2.fromColumn].l[k].t = "string"

\* The value a relation's column holds when every related row that exists
\* is materialized and every other reference stays raw.
Expected(raw, rel) ==
  IF IsFK(rel)
  THEN IF HasFK(raw, rel) /\ TargetHas(db, rel.toTable, Sprintf(raw[rel.fromColumn]))
       THEN RowV(rel.toTable, Sprintf(raw[rel.fromColumn]))
       ELSE raw[rel.fromColumn]
  ELSE LET edges == EdgesOf(db, pivotTableName(page.tableName, rel), Sprintf(raw[ID]))
       IN ListV([k \in 1..Len(edges) |->
                   IF TargetHas(db, rel.toTable, edges[k])
                   THEN RowV(rel.toTable, edges[k]) ELSE StrV(edges[k])])

\* The request reached the resolution of at least one row.
Servable ==
  /\ page.found /\ page.deploy
  /\ page.tableName \in DOMAIN db
  /\ req.kind = "list" => Len(db[page.tableName]) > 0
  /\ req.kind = "item" => SelectById(db, quoteIdent(page.tableName), req.itemID) # <<>>

SomeTargetFails == \E rel \in Declared : rel.toTable \notin DOMAIN db

\* C3: when the batch query of a target table fails because the table does
\* not exist, the resolution still answers 200 for every row, the relations
\* to the other tables are materialized as without the failure, and the
\* relations to the failed table keep their raw ids.
BatchFailureDegrades ==
  (pc = "done" /\ req.kind \in {"list", "item"} /\ Servable /\ SomeTargetFails)
  => /\ resp.status = 200
     /\ req.kind = "list" => Len(resp.data) = Len(db[page.tableName])
     /\ \A p \in Resolved : \A rel \in Declared :
          (IsM2M(rel) \/ rel.fromColumn \in DOMAIN p[1])
          => /\ rel.fromColumn \in DOMAIN p[2]
             /\ p[2][rel.fromColumn] = Expected(p[1], rel)

\* A finished resolution where one target table is missing, a reference to
\* it stayed raw and a reference to another table was materialized.
BatchFailureWitness ==
  /\ SomeTargetFails
  /\ \E p \in Resolved : \E r1, r2 \in Declared :
       /\ r1.toTable \notin DOMAIN db
       /\ IsFK(r1) /\ HasFK(p[1], r1) /\ p[2][r1.fromColumn] = p[1][r1.fromColumn]
       /\ r2.toTable \in DOMAIN db
       /\ IsM2M(r2)
       /\ \E k \in 1..Len(p[2][r2.fromColumn].l) : p[2][r2.fromColumn].l[k].t = "map"

\* C4: a row with no pivot edge for a many-to-many relation has the
\* relation's column in its output, holding an empty list (never nil), in
\* the listing and in the item route.
ZeroEdgesEmptyList ==
  \A p \in Resolved : \A rel \in Declared :
    (IsM2M(rel)
     /\ EdgesOf(db, pivotTableName(page.tableName, rel), Sprintf(p[1][ID])) = <<>>)
    => /\ rel.fromColumn \in DOMAIN p[2]
       /\ p[2][rel.fromColumn].t = "list"
       /\ p[2][rel.fromColumn].l = <<>>

\* The item route answered for a row without edges in an existing pivot
\* table that holds edges of another row.
ZeroEdgesWitness ==
  /\ req.kind = "item"
  /\ \E p \in Resolved : \E rel \in Declared :
       /\ IsM2M(rel)
       /\ pivotTableName(page.tableName, rel) \in DOMAIN db
       /\ Len(db[pivotTableName(page.tableName, rel)]) > 0
       /\ EdgesOf(db, pivotTableName(page.tableName, rel), Sprintf(p[1][ID])) = <<>>
       /\ p[2][rel.fromColumn] = ListV(<<>>)

\* The ids the rows and loaded pivot edges can demand from a table: the
\* texts of the non-nil foreign keys of the relations to it, and the right
\* ids of the pivot tables of the many-to-many relations to it.
DemandSources(table) ==
  LET rows == IF req.kind = "list" THEN Range(req.rawRows) ELSE {req.item}
  IN {Sprintf(row[rel.fromColumn]) :
        <<row, rel>> \in {x \in rows \X Declared :
                            /\ IsFK(x[2]) /\ x[2].toTable = table
                            /\ x[2].fromColumn \in DOMAIN x[1]
                            /\ x[1][x[2].fromColumn] # Null}}
     \cup UNION {Range(EdgesOf(db, pivotTableName(page.tableName, rel), Sprintf(row[ID]))) :
                   <<row, rel>> \in {x \in rows \X Declared :
                                       IsM2M(x[2]) /\ x[2].toTable = table}}

\* C5: a row whose foreign-key column is nil or absent adds no id to the
\* demand of the relation's target table, and its output keeps the column as
\* it was: nil stays nil, absent stays absent.
NullForeignKeyUntouched ==
  /\ "fkByTable" \in DOMAIN req /\ "objCache" \in DOMAIN req
     => \A table \in DOMAIN req.fkByTable :
          req.fkByTable[table] \subseteq DemandSources(table)
  /\ \A p \in Resolved : \A rel \in Declared :
       (IsFK(rel) /\ (rel.fromColumn \notin DOMAIN p[1] \/ p[1][rel.fromColumn] = Null))
       => /\ rel.fromColumn \in DOMAIN p[2] <=> rel.fromColumn \in DOMAIN p[1]
          /\ rel.fromColumn \in DOMAIN p[1] => p[2][rel.fromColumn] = Null

\* A finished listing with one row whose foreign key is nil, while another
\* row demands an id of the same table.
NullForeignKeyWitness ==
  /\ req.kind = "list"
  /\ \E p1, p2 \in Resolved : \E rel \in Declared :
       /\ IsFK(rel)
       /\ rel.fromColumn \in DOMAIN p1[1] /\ p1[1][rel.fromColumn] = Null
       /\ p1[2][rel.fromColumn] = Null
       /\ HasFK(p2[1], rel)
       /\ req.fkByTable[rel.toTable] = {Sprintf(p2[1][rel.fromColumn])}

\* The text is exactly the quoting of the identifier it names.
IsQuotedIdent(item) == Len(item) >= 2 /\ item = quoteIdent(IdentName(item))

\* A piece spliced into the text of statement q carries no value: it is a
\* quoted identifier, a placeholder of one of q's bound parameters, or a
\* quoted column assigned from a placeholder.
ItemCarriesNoValue(q, item) ==
  \/ IsQuotedIdent(item)
  \/ \E i \in 1..Len(q.args) : item = Placeholder(i)
  \/ \E i \in 1..Len(q.args) : \E k \in 1..Len(item) :
       /\ IsQuotedIdent(SubSeq(item, 1, k))
       /\ SubSeq(item, k + 1, Len(item)) = <<" ", "=", " ">> \o Placeholder(i)

\* C6: every statement issued passes every value as a bound parameter; only
\* identifiers that went through quoteIdent are spliced into the SQL text.
EveryValueIsBound ==
  \A n \in 1..Len(queries) :
    \A j \in 1..Len(queries[n].subst) :
      \A k \in 1..Len(queries[n].subst[j]) :
        ItemCarriesNoValue(queries[n], queries[n].subst[j][k])

Malformed ==
  /\ page.found
  /\ ~page.schemaRelationsDeployed.isNil
  /\ ~page.schemaRelationsDeployed.valid

\* C10: when the stored relation JSON of the page does not parse, the
\* request is rejected before any statement is issued on the page's table,
\* its pivot tables or its target tables.
MalformedSchemaRejected ==
  Malformed => /\ queries = <<>>
               /\ pc = "done" => resp.status >= 400

\* The statements issued that name table t.
QueriesOn(t) == {n \in 1..Len(queries) : queries[n].subst[1][1] = quoteIdent(t)}

\* C1: for every demand map, batchLoadRelated issues exactly one query per
\* target table whose id set is not empty, carrying the ids of that set, and
\* none for a table whose id set is empty.
OneQueryPerDemandedTable ==
  (pc = "done" /\ req.kind = "batchLoadRelated")
  => LET fk == req.fkByTable
         demanded == {t \in DOMAIN fk : fk[t] # {}}
     IN /\ Len(queries) = Cardinality(demanded)
        /\ \A t \in demanded :
             /\ Cardinality(QueriesOn(t)) = 1
             /\ \A n \in QueriesOn(t) : Range(queries[n].args) = fk[t]
        /\ \A t \in (DOMAIN fk) \ demanded : QueriesOn(t) = {}

\* A call whose demand names one table with two ids and one table with none.
OneQueryWitness ==
  /\ pc = "done" /\ req.kind = "batchLoadRelated"
  /\ \E t1, t2 \in DOMAIN req.fkByTable :
       /\ Cardinality(req.fkByTable[t1]) = 2
       /\ req.fkByTable[t2] = {}
  /\ Len(queries) = 1

\* C7: InsertDynamic with an empty field map fails, returns no id, issues no
\* statement and leaves the database as it was, whatever the table.
EmptyInsertFails ==
  (pc = "done" /\ req.kind = "InsertDynamic" /\ DOMAIN req.fields = {})
  => /\ resp.err
     /\ resp.id = <<>>
     /\ queries = <<>>
     /\ db = hist.db0

\* InsertDynamic returned for an empty field map on an existing table.
EmptyInsertWitness ==
  /\ pc = "done" /\ req.kind = "InsertDynamic"
  /\ DOMAIN req.fields = {}
  /\ req.table \in DOMAIN db
  /\ resp.err

\* C8: InsertPivotM2M inserts its edges one by one in the order of rightIDs;
\* when an insert fails it returns that first error, the edges inserted
\* before it stay in the pivot table and no later edge is attempted.
PivotFailureKeepsPrefix ==
  req.kind = "InsertPivotM2M"
  => LET k == Len(queries)
         edges == [n \in 1..Len(req.rightIDs) |-> Edge(req.leftID, req.rightIDs[n])]
     IN /\ k <= Len(req.rightIDs)
        /\ \A n \in 1..k : queries[n] = PivotStmt(req.pivotTable, req.leftID, req.rightIDs[n])
        /\ hist.failed <= 1
        /\ DOMAIN db = DOMAIN hist.db0
        /\ \A t \in DOMAIN db :
             db[t] = hist.db0[t] \o
                     (IF t = req.pivotTable THEN SubSeq(edges, 1, k - hist.failed) ELSE <<>>)
        /\ pc = "done" => /\ resp.err <=> hist.failed = 1
                          /\ ~resp.err => k = Len(req.rightIDs)
        /\ hist.failed = 1 => pc = "done"

\* The second insert of a call failed after the first one had added its edge
\* to a pivot table that already held one.
PivotFailureWitness ==
  /\ pc = "done" /\ req.kind = "InsertPivotM2M"
  /\ resp.err
  /\ Len(req.rightIDs) = 2 /\ Len(queries) = 2
  /\ Len(hist.db0[req.pivotTable]) = 1
  /\ db[req.pivotTable] =
       Append(hist.db0[req.pivotTable], Edge(req.leftID, req.rightIDs[1]))

\* The right ids the payload of the request gives over all its relations.
RECURSIVE CountRightIDs(_, _)
CountRightIDs(m2mFields, rels) ==
  IF rels = <<>> THEN 0
  ELSE (IF IsM2M(Head(rels)) THEN Len(RightIDsOf(m2mFields, Head(rels))) ELSE 0)
       + CountRightIDs(m2mFields, Tail(rels))

\* C9: a write whose main insert or one of whose pivot inserts was refused
\* by the database does not answer 201 with the new id, and issues no
\* statement twice: at most one main insert and one pivot insert per right
\* id of the payload.
MutationErrorsReturned ==
  req.kind = "post" =>
    /\ (hist.failed > 0 => resp.status # 201)
    /\ ("m2mFields" \in DOMAIN req =>
          Len(queries) <= 1 + CountRightIDs(req.m2mFields, req.relations))

\* The item route has answered for the row a successful InsertDynamic made.
ResolvedInserted ==
  /\ pc = "done" /\ req.kind = "item"
  /\ "inserted" \in DOMAIN hist
  /\ ~hist.inserted.err
  /\ req.itemID = hist.inserted.id

\* The column is the source column of a relation the page declares.
RelationColumn(c) == \E rel \in Declared : rel.fromColumn = c

\* C11: after a successful InsertDynamic(table, fields) returning newId, the
\* resolution of the row newId of that table answers 200 with a row in
\* which every inserted column that no relation declares holds the
\* inserted value.
InsertThenResolve ==
  ResolvedInserted =>
    /\ resp.status = 200
    /\ \A c \in DOMAIN hist.inserted.fields :
         ~RelationColumn(c) => (c \in DOMAIN resp.item /\ resp.item[c] = hist.inserted.fields[c])

InsertThenResolveWitness ==
  /\ ResolvedInserted
  /\ hist.db0[PG] # <<>>
  /\ N \in DOMAIN hist.inserted.fields
  /\ resp.status = 200
  /\ resp.item[N] = StrV(<<"x">>)

\* The right ids of the edges of a left id in a pivot table, in table order.
RightsOf(rows, left) ==
  LET mine == SelectSeq(rows, LAMBDA e : e[LEFT].s = left)
  IN [i \in 1..Len(mine) |-> mine[i][RIGHT].s]

\* The rewrite has run to its end without a refused statement.
Rewritten ==
  pc = "done" /\ req.kind = "rewrite" /\ hist.failed = 0 /\ req.round = Rounds

\* C12: ClearPivot(pivot, left) followed by InsertPivotM2M(pivot, left, S),
\* run twice without failure, leaves the edges of left equal to S, each
\* edge once, and the edges of every other left id as they were.
PivotRewriteIdempotent ==
  Rewritten =>
    /\ RightsOf(db[req.pivotTable], req.leftID) = req.rightIDs
    /\ \A l \in LeftIds \ {req.leftID} :
         RightsOf(db[req.pivotTable], l) = RightsOf(hist.db0[req.pivotTable], l)

PivotRewriteWitness ==
  /\ Rewritten
  /\ Len(req.rightIDs) = 2
  /\ RightsOf(hist.db0[req.pivotTable], req.leftID) # <<>>
  /\ \E l \in LeftIds \ {req.leftID} : RightsOf(hist.db0[req.pivotTable], l) # <<>>

\* The characters are the same letter, b in either case and a in lower case,
\* or the same character that is no upper-case letter.
LoweredFrom(a, b) ==
  \/ a = b /\ \A k \in 1..26 : Upper[k] # b
  \/ \E k \in 1..26 : Lower[k] = a /\ Upper[k] = b

NamedPivot == pc = "done" /\ req.kind = "pivotTableName"

\* C13: pivotTableName returns relation.pivotTable as it is when it is not
\* empty, and otherwise sourceTable + "_" + fromColumn + "_" + toTable in
\* lower case; for the table pages and the relation tags -> tags it returns
\* pages_tags_tags.
PivotNameDerivation ==
  NamedPivot =>
    LET rel == req.rel
        cat == req.pageTable \o <<"_">> \o rel.fromColumn \o <<"_">> \o rel.toTable
    IN /\ rel.pivotTable # <<>> => resp.name = rel.pivotTable
       /\ rel.pivotTable = <<>> =>
            /\ Len(resp.name) = Len(cat)
            /\ \A i \in 1..Len(cat) : LoweredFrom(resp.name[i], cat[i])
       /\ (req.pageTable = PAGES /\ rel.fromColumn = TAGS /\ rel.toTable = TAGS
           /\ rel.pivotTable = <<>>) =>
            resp.name = <<"p","a","g","e","s","_","t","a","g","s","_","t","a","g","s">>

PivotNameWitness ==
  /\ NamedPivot
  /\ req.rel.pivotTable = <<>>
  /\ req.pageTable = <<"B","L","O","G","_","2">>
  /\ req.rel.toTable = <<"U","s","e","r","s">>
  /\ resp.name[1] = "b"

\* Inside the string double quotes stand in adjacent pairs only.
RECURSIVE PairsOnly(_)
PairsOnly(s) ==
  IF s = <<>> THEN TRUE
  ELSE IF Head(s) # "\"" THEN PairsOnly(Tail(s))
  ELSE Len(s) >= 2 /\ s[2] = "\"" /\ PairsOnly(SubSeq(s, 3, Len(s)))

Quoted == pc = "done" /\ req.kind = "quoteIdent"

\* C14: quoteIdent wraps the identifier in one leading and one trailing
\* double quote and doubles every double quote inside: the inside holds
\* double quotes in adjacent pairs only, un-doubling it gives the identifier
\* back, and two distinct identifiers give distinct outputs.
QuoteIdentDoubles ==
  Quoted =>
    LET out == resp.quoted
        inside == SubSeq(out, 2, Len(out) - 1)
    IN /\ Len(out) >= 2 /\ out[1] = "\"" /\ out[Len(out)] = "\""
       /\ PairsOnly(inside)
       /\ Undouble(inside) = req.ident
       /\ req.ident # req.other => resp.quoted # resp.otherQuoted

QuoteIdentWitness ==
  /\ Quoted
  /\ req.ident = <<"a", "\"", "\"">>
  /\ req.other = <<"a", "\"">>
  /\ Len(resp.quoted) = 7

Updated == pc = "done" /\ req.kind = "UpdateDynamic"

\* C15: UpdateDynamic with an empty field map returns success, issues no
\* statement and leaves the database as it was; with fields it issues one
\* UPDATE whose WHERE clause compares id with the given id, passed as the
\* last bound parameter, so that no row of another id is written and, on
\* success, the rows of that id hold the given values.
UpdateDynamicFrame ==
  Updated =>
    /\ DOMAIN req.fields = {} =>
         /\ ~resp.err
         /\ queries = <<>>
         /\ db = hist.db0
    /\ DOMAIN req.fields # {} =>
         /\ Len(queries) = 1
         /\ queries[1].format = "UPDATE %s SET %s WHERE id = $%d"
         /\ Len(queries[1].args) = Cardinality(DOMAIN req.fields) + 1
         /\ queries[1].args[Len(queries[1].args)] = StrV(req.id)
         /\ queries[1].subst[3] = <<Itoa(Len(queries[1].args))>>
         /\ DOMAIN db = DOMAIN hist.db0
         /\ \A t \in DOMAIN db :
              /\ Len(db[t]) = Len(hist.db0[t])
              /\ \A i \in 1..Len(db[t]) :
                   IF t = req.table /\ HasId(hist.db0[t][i], req.id) /\ ~resp.err
                   THEN \A c \in DOMAIN db[t][i] :
                          db[t][i][c] = IF c \in DOMAIN req.fields THEN req.fields[c]
                                        ELSE hist.db0[t][i][c]
                   ELSE db[t][i] = hist.db0[t][i]

UpdateDynamicWitness ==
  /\ Updated
  /\ DOMAIN req.fields = {}
  /\ req.table = W
  /\ W \in DOMAIN hist.db0
  /\ Len(hist.db0[W]) = 2
  /\ ~resp.err

\* The right id an element of a many-to-many list stands for: the id of a
\* materialized row, or the raw id.
ElementId(e) == e.s

\* C16: for every resolved row and many-to-many relation the output list
\* has one element per pivot row of the row's left id, in the order the
\* pivot query returned them.
PivotOrderKept ==
  \A p \in Resolved : \A rel \in Declared :
    IsM2M(rel) =>
      LET edges == EdgesOf(db, pivotTableName(page.tableName, rel), Sprintf(p[1][ID]))
          list == p[2][rel.fromColumn].l
      IN [k \in 1..Len(list) |-> ElementId(list[k])] = edges

\* The statements of the listing that read the given pivot table.
PivotQueriesOn(pivot) ==
  {i \in 1..Len(queries) :
     /\ queries[i].format = "SELECT left_id, right_id FROM %s WHERE left_id IN (%s)"
     /\ IdentName(queries[i].subst[1][1]) = pivot}

\* C19: in a listing pass at most one pivot query is issued for every pivot
\* table name, whatever the number of rows and of many-to-many relations
\* that resolve to that name.
OnePivotQueryPerName ==
  req.kind = "list" =>
    \A rel \in Declared :
      IsM2M(rel) => Cardinality(PivotQueriesOn(pivotTableName(page.tableName, rel))) <= 1

\* C17: a resolution writes nothing to the database, and what it returns is
\* computed from the database of its own call: every relation column holds
\* the rows and edges the database has now, also when the call before it
\* returned other contents for the same row.
ResolutionStateless ==
  /\ req.kind \in {"list", "item"} => db = hist.db0
  /\ \A p \in Resolved : \A rel \in Declared :
       (IsM2M(rel) \/ rel.fromColumn \in DOMAIN p[1])
       => /\ rel.fromColumn \in DOMAIN p[2]
          /\ p[2][rel.fromColumn] = Expected(p[1], rel)

\* A second listing returns the raw foreign key of a row whose target the
\* first listing had materialized, the target row deleted in between.
ResolutionStatelessWitness ==
  /\ pc = "done" /\ req.kind = "list" /\ resp.status = 200
  /\ "written" \in DOMAIN hist
  /\ hist.prev.req.kind = "list" /\ hist.prev.resp.status = 200
  /\ hist.prev.resp.data[1][A] = RowV(U, <<"7">>)
  /\ resp.data[1][A] = IntV(<<"7">>)

\* The concurrent resolution answered for the row the write has inserted.
SawNewRow ==
  /\ "seen" \in DOMAIN hist
  /\ hist.seen.resp.status = 200
  /\ "newID" \in DOMAIN req
  /\ req.newID = hist.seen.itemID
  /\ hist.seen.at \in {"post_pivot", "done"}

IsPrefix(s, t) == Len(s) <= Len(t) /\ s = SubSeq(t, 1, Len(s))

\* What a resolution that finds the new row returns for its many-to-many
\* relations: the edges the row id had before, then a prefix of the right
\* ids the write asks for.
SeesPrefix ==
  SawNewRow =>
    \A i \in 1..Len(req.relations) :
      LET rel == req.relations[i]
          list == hist.seen.resp.item[rel.fromColumn].l
          before == EdgesOf(hist.db0, pivotTableName(page.tableName, rel), req.newID)
          seenIds == [k \in 1..Len(list) |-> list[k].s]
      IN IsM2M(rel) =>
           /\ IsPrefix(before, seenIds)
           /\ IsPrefix(SubSeq(seenIds, Len(before) + 1, Len(seenIds)),
                       RightIDsOf(req.m2mFields, rel))

\* A step changes at most one table, by one row added at its end.
OneRowAStep ==
  /\ DOMAIN db' = DOMAIN db
  /\ Cardinality({t \in DOMAIN db : db'[t] # db[t]}) <= 1
  /\ \A t \in DOMAIN db :
       db'[t] # db[t] => (Len(db'[t]) = Len(db[t]) + 1 /\ SubSeq(db'[t], 1, Len(db[t])) = db[t])

\* C18: the main insert and each pivot insert of a write take effect one
\* by one, with no transaction around them: every step of the write adds
\* one row, and a resolution that runs during the write and finds the new
\* row returns it with a prefix of the requested edges (any prefix, the
\* empty one included).
WriteSeenPartially == []SeesPrefix /\ [][OneRowAStep]_vars

\* A write of two edges that ends with 201 and no refused statement, while
\* the resolution saw the new row with the first edge only.
WriteSeenPartiallyWitness ==
  /\ SawNewRow
  /\ pc = "done" /\ resp.status = 201 /\ hist.failed = 0
  /\ \E i \in 1..Len(req.relations) :
       LET rel == req.relations[i]
       IN /\ IsM2M(rel)
          /\ Len(RightIDsOf(req.m2mFields, rel)) = 2
          /\ EdgesOf(hist.db0, pivotTableName(page.tableName, rel), req.newID) = <<>>
          /\ Len(hist.seen.resp.item[rel.fromColumn].l) = 1
          /\ Len(EdgesOf(db, pivotTableName(page.tableName, rel), req.newID)) = 2

\* A listing pass on a deployed page has ended.
ListingPass == pc = "done" /\ req.kind = "list" /\ page.found /\ page.deploy

\* The statements of the pass after the first, by kind: pivot queries,
\* batch queries of a target table, full-table queries of a target table.
PivotQueries ==
  {i \in 2..Len(queries) :
     queries[i].format = "SELECT left_id, right_id FROM %s WHERE left_id IN (%s)"}

BatchQueriesOf(t) ==
  {i \in 2..Len(queries) :
     /\ queries[i].format = "SELECT * FROM %s WHERE id IN (%s)"
     /\ IdentName(queries[i].subst[1][1]) = t}

DependencyQueriesOf(t) ==
  {i \in 2..Len(queries) :
     /\ queries[i].format = "SELECT * FROM %s"
     /\ IdentName(queries[i].subst[1][1]) = t}

SourceQueryFirst ==
  /\ Len(queries) >= 1
  /\ queries[1] = Stmt("SELECT * FROM %s", << <<quoteIdent(page.tableName)>> >>, <<>>)

ManyToManyCount ==
  Cardinality({i \in 1..Len(req.relations) : IsM2M(req.relations[i])})

Targets == {rel.toTable : rel \in Declared}

\* C20 as stated: a listing pass that answers 200 issues one query for the source rows, one
\* pivot query per many-to-many relation, at most one batch query and at
\* most one full-table query per distinct target table, whatever the number
\* of source rows.
ListingQueryCount ==
  (ListingPass /\ resp.status = 200) =>
    /\ SourceQueryFirst
    /\ Cardinality(PivotQueries) = ManyToManyCount
    /\ \A t \in Targets :
         /\ Cardinality(BatchQueriesOf(t)) <= 1
         /\ Cardinality(DependencyQueriesOf(t)) <= 1

\* C20 amended: the pass issues one query for the source rows and nothing
\* else when that query fails or returns no row; otherwise one pivot query
\* per many-to-many relation when a row has an id, at most one batch query
\* and exactly one full-table query per distinct target table, and no other
\* statement, whatever the number of rows.
ListingQueryBound ==
  ListingPass =>
    /\ SourceQueryFirst
    /\ IF page.tableName \notin DOMAIN db \/ db[page.tableName] = <<>>
       THEN Len(queries) = 1
       ELSE /\ Cardinality(PivotQueries) =
                 IF \E i \in 1..Len(db[page.tableName]) :
                      /\ ID \in DOMAIN db[page.tableName][i]
                      /\ db[page.tableName][i][ID].t # "nil"
                 THEN ManyToManyCount ELSE 0
            /\ \A t \in Targets :
                 /\ Cardinality(BatchQueriesOf(t)) <= 1
                 /\ Cardinality(DependencyQueriesOf(t)) = 1
            /\ \A i \in 2..Len(queries) :
                 \/ i \in PivotQueries
                 \/ \E t \in Targets : i \in BatchQueriesOf(t) \cup DependencyQueriesOf(t)

\* A pass over two rows whose foreign keys and edges reference the same
\* target table: one pivot query, one batch query, one full-table query.
ListingQueryWitness ==
  /\ ListingPass /\ resp.status = 200
  /\ Len(resp.data) = 2
  /\ Targets = {U}
  /\ ManyToManyCount = 1
  /\ Cardinality(BatchQueriesOf(U)) = 1
  /\ Len(queries) = 4

\* The relation is the last one declared on its source column.
LastOnColumn(rels, j) ==
  \A k \in (j + 1)..Len(rels) : rels[k].fromColumn # rels[j].fromColumn

\* C21: when two relations are declared on the same source column the
\* resolution answers 200 and the column of every output row holds the
\* result of the relation declared last on it.
LastRelationWins ==
  (pc = "done" /\ req.kind \in {"list", "item"} /\ Servable) =>
    /\ resp.status = 200
    /\ \A p \in Resolved : \A j \in 1..Len(req.relations) :
         LET rel == req.relations[j]
         IN (LastOnColumn(req.relations, j)
             /\ (IsM2M(rel) \/ rel.fromColumn \in DOMAIN p[1]))
            => /\ rel.fromColumn \in DOMAIN p[2]
               /\ p[2][rel.fromColumn] = Expected(p[1], rel)

\* An item resolution has answered 200 after a listing of the same page
\* that answered 200, the database the same for both.
ListedThenResolved ==
  /\ pc = "done" /\ req.kind = "item" /\ resp.status = 200
  /\ "prev" \in DOMAIN hist
  /\ "written" \notin DOMAIN hist
  /\ hist.prev.req.kind = "list" /\ hist.prev.resp.status = 200

\* C22: for the same database and relations, the item GET /page/:id/:itemId
\* returns equals the entry of that id in the data GET /page/:id returns.
ListingItemAgree ==
  ListedThenResolved =>
    /\ \E i \in 1..Len(hist.prev.resp.data) :
         Sprintf(hist.prev.resp.data[i][ID]) = req.itemID
    /\ \A i \in 1..Len(hist.prev.resp.data) :
         Sprintf(hist.prev.resp.data[i][ID]) = req.itemID
         => hist.prev.resp.data[i] = resp.item

\* The id an element of a many-to-many array of the payload gives: the
\* string itself, or the whole number an object carries as its "id".
GivenId(e) == IF e.t = "string" THEN e.s ELSE e.m[ID].s

\* The element is an id string or an object carrying an id.
GivesId(e) == e.t = "string" \/ (e.t = "object" /\ ID \in DOMAIN e.m)

\* The many-to-many arrays of the payload, each of id strings or objects
\* carrying an id.
AssociationsGiven(payload, rel) ==
  /\ IsM2M(rel)
  /\ rel.fromColumn \in DOMAIN payload
  /\ payload[rel.fromColumn].t = "list"
  /\ \A k \in 1..Len(payload[rel.fromColumn].l) : GivesId(payload[rel.fromColumn].l[k])

\* The item route has answered for the row a POST created without a refused
\* statement, the new row having had no edge before.
ResolvedCreated ==
  /\ pc = "done" /\ req.kind = "item"
  /\ "post" \in DOMAIN hist
  /\ hist.post.resp.status = 201
  /\ hist.failed = 0
  /\ req.itemID = hist.post.req.newID
  /\ \A rel \in Declared :
       IsM2M(rel) =>
         EdgesOf(hist.db0, pivotTableName(page.tableName, rel), req.itemID) = <<>>

\* C23: after a successful POST whose many-to-many field holds the ids R
\* (id strings or objects carrying an id), the resolution of the new row
\* yields for that field one element per id of R, the target object when
\* the target table has a row of that id and the raw id otherwise; and the
\* many-to-many field is no column of the main INSERT.
AssociationsReadBack ==
  ResolvedCreated =>
    \A rel \in Declared :
      AssociationsGiven(hist.post.req.payload, rel) =>
        LET R == hist.post.req.payload[rel.fromColumn].l
            list == resp.item[rel.fromColumn].l
        IN /\ resp.status = 200
           /\ Len(list) = Len(R)
           /\ \A k \in 1..Len(R) :
                list[k] = IF /\ TableExists(db, quoteIdent(rel.toTable))
                             /\ \E row \in Range(TableRows(db, quoteIdent(rel.toTable))) :
                                  HasId(row, GivenId(R[k]))
                          THEN RowV(rel.toTable, GivenId(R[k]))
                          ELSE StrV(GivenId(R[k]))
           /\ \A q \in Range(hist.post.queries) :
                q.format = InsertStmt(page.tableName, <<>>, <<>>).format =>
                  quoteIdent(rel.fromColumn) \notin Range(q.subst[2])

\* The main INSERT of the request has been made and has added its row.
MainInserted ==
  /\ "newID" \in DOMAIN req
  /\ page.tableName \in DOMAIN db
  /\ Len(db[page.tableName]) = Len(hist.db0[page.tableName]) + 1
  /\ HasId(db[page.tableName][Len(db[page.tableName])], req.newID)

\* A step that changes a pivot table adds one edge of the new row, after
\* the main INSERT.
EdgeAfterInsert ==
  \A t \in DOMAIN db \ {page.tableName} :
    db'[t] # db[t] =>
      /\ req.kind = "post"
      /\ MainInserted
      /\ \E right \in Range(RightIDsOf(req.m2mFields, req.relations[req.r])) :
           db'[t] = Append(db[t], Edge(req.newID, right))

\* The main INSERT was refused, or not sent for want of a simple field: the
\* request is answered with the error and no pivot table has changed.
NoEdgeWithoutRow ==
  (req.kind = "post" /\ "newID" \in DOMAIN req /\ ~MainInserted) =>
    /\ pc = "done"
    /\ resp.status = 500
    /\ \A t \in DOMAIN db \ {page.tableName} : db[t] = hist.db0[t]

\* C24: the pivot inserts of a POST happen only after its main INSERT has
\* succeeded, and every edge they write has the returned id as left_id;
\* when the main INSERT fails, a payload of many-to-many fields only
\* included, no edge is written and the error is returned.
PivotAfterMainInsert == []NoEdgeWithoutRow /\ [][EdgeAfterInsert]_vars

PivotAfterMainInsertWitness ==
  /\ pc = "done" /\ req.kind = "post"
  /\ MainInserted
  /\ resp = Created(req.newID)
  /\ \E t \in DOMAIN db \ {page.tableName} :
       /\ Len(db[t]) = Len(hist.db0[t]) + 2
       /\ db[t][Len(db[t])][LEFT].s = req.newID

\* The key the resolution looks a target row up with.
CacheKey(table, id) == table \o <<":">> \o id

\* C25: the cache key is injective on (target table, id): two distinct
\* pairs never share a key, and the entry under the key of (T, i) is a row
\* loaded from T whose id, written as text, is i.
CacheKeyInjective ==
  (pc = "done" /\ req.kind = "batchLoadRelated") =>
    /\ \A t1, t2 \in DOMAIN req.fkByTable :
         \A i1 \in req.fkByTable[t1] : \A i2 \in req.fkByTable[t2] :
           CacheKey(t1, i1) = CacheKey(t2, i2) => (t1 = t2 /\ i1 = i2)
    /\ \A t \in DOMAIN req.fkByTable : \A i \in req.fkByTable[t] :
         CacheKey(t, i) \in DOMAIN resp.cache =>
           resp.cache[CacheKey(t, i)] = RowV(t, i)

\* The nested-set conditions on a table of navigation items.
NestedSet(rows) ==
  LET I == DOMAIN rows
  IN /\ \A i \in I : rows[i].lft < rows[i].rgt
     /\ \A i, j \in I :
          /\ rows[i].lft # rows[j].rgt
          /\ (i # j => rows[i].lft # rows[j].lft /\ rows[i].rgt # rows[j].rgt)
     /\ \A i, j \in I :
          i # j =>
            \/ rows[i].rgt < rows[j].lft
            \/ rows[j].rgt < rows[i].lft
            \/ (rows[i].lft < rows[j].lft /\ rows[j].rgt < rows[i].rgt)
            \/ (rows[j].lft < rows[i].lft /\ rows[i].rgt < rows[j].rgt)
     /\ \A i, j \in I :
          rows[i].parentID = rows[j].id =>
            /\ rows[j].lft < rows[i].lft
            /\ rows[i].rgt < rows[j].rgt
            /\ rows[i].depth = rows[j].depth + 1

RolledBack ==
  \A t \in Txs :
    (pc[t] = "done" /\ t \notin hist.committed) =>
      /\ req[t].writes = NoWrites
      /\ \A i \in DOMAIN db : db[i].id # Len(hist.db0) + t
      /\ (hist.committed = {} => db = hist.db0)

\* C27: for any interleaving of two concurrent navigation insertions, either
\* both commit and the lft and rgt values stay pairwise distinct with the
\* intervals properly nested, or a failed insertion rolls back every shift
\* it made.
InsertionsIsolated ==
  (\A t \in Txs : pc[t] = "done") => (NestedSet(db) /\ RolledBack)

\* The middleware has passed the request on to the handlers.
Admitted == pc.mw = "done" /\ resp.mw.status = 200

\* C28: in redis mode a request is passed to the handlers only if its token
\* is a key in Redis or a live introspection reported it active; the
\* middleware writes a token to Redis only after an active introspection
\* and only with a positive TTL, so every token admitted from the cache was
\* reported active by an introspection before.
AdmittedOnlyIfActive ==
  /\ Admitted => (req.mw.exists \/ (req.mw.introspected /\ ~req.mw.err /\ req.mw.active))
  /\ (pc.mw = "done" /\ req.mw.wrote) =>
       (req.mw.introspected /\ ~req.mw.err /\ req.mw.active)
  /\ \A key \in DOMAIN db : db[key].ttl /\ key \in hist.reported
  /\ (Admitted /\ req.mw.exists) => req.mw.token \in hist.reported

AdmittedOnlyIfActiveWitness ==
  /\ Admitted
  /\ req.mw.exists
  /\ ~hist.active[req.mw.token]
  /\ req.mw.token \in hist.reported

\* A step in which the pass is through with a key leaves the key only if
\* it had a TTL and its introspection succeeded with active = true.
PassKeeps ==
  (pc.rf \in {"ttl", "decide"} /\ req'.rf.i = req.rf.i + 1) =>
    LET token == req.rf.keys[req.rf.i]
    IN token \in DOMAIN db' =>
         /\ pc.rf = "decide"
         /\ req.rf.ttl /\ db'[token].ttl
         /\ ~req.rf.err /\ req.rf.active

\* A request whose token is no key and is not active is answered 401.
InactiveRejected ==
  (pc.mw = "done" /\ ~req.mw.exists /\ ~req.mw.active) => resp.mw.status = 401

\* A key whose token is not active is deleted.
InactiveDeleted ==
  \A token \in Tokens :
    (token \in DOMAIN db /\ ~hist.active[token]) ~> (token \notin DOMAIN db)

RECURSIVE WholeItem(_, _)
WholeItem(items, id) ==
  LET below == ChildrenOf(items, id)
  IN [title |-> id, children |-> [k \in DOMAIN below |-> WholeItem(items, below[k])]]

\* C30: GET /navigation returns one section per header item, each section
\* holding every descendant of the header nested under its parent at every
\* depth; the result is a function of the table contents, whatever the
\* order in which the map of items is walked.
SectionsWhole ==
  (req.kind = "nav_get" /\ resp.status = 200) =>
    LET headers == SelectSeq(db, LAMBDA r : r.isHeader)
    IN resp.sections =
         [h \in DOMAIN headers |->
            [subheader |-> headers[h].id,
             items |-> LET below == ChildrenOf(db, headers[h].id)
                       IN [k \in DOMAIN below |-> WholeItem(db, below[k])]]]

====
